---- MODULE Spec2Model ----
(***************************************************************************)
(* Extract-normalize-diff pipeline of the CEMC rate manager.               *)
(*                                                                         *)
(* Text is a sequence of one-character strings (the en dash is the element *)
(* "ndash").  Regular expressions are sequences of atoms, each a character *)
(* class with a quantifier, matched with Python's greedy backtracking      *)
(* order.  A float is the exact decimal it was read from, [w |-> whole     *)
(* part, f |-> fraction digits without trailing zeros]; Python's None is   *)
(* Null where a number is expected and NoneStr where a string is expected. *)
(* A dict is a function whose DOMAIN is its key set, so a missing key      *)
(* differs from a key holding None.                                        *)
(***************************************************************************)
EXTENDS Integers, Sequences, FiniteSets, TLC

VARIABLES
    chunks,      \* the phrases the document under study is made of
    text,        \* the text pdf_to_text extracted from that document
    pc,          \* position of the pure-function drivers
    hdr,         \* header pattern handed to _find_section
    nexts,       \* next_header_patterns handed to _find_section
    located,     \* what _find_section returned
    parsed,      \* what parse_pdf returned
    normalized,  \* what normalize returned
    current,     \* diff_summaries' first argument
    baseline,    \* diff_summaries' second argument
    changes,     \* what diff_summaries returned
    published,   \* the document the utility's web site serves
    cachePdf,    \* .cache_cemc/<basename>.pdf, or NoFile
    cacheMeta,   \* .cache_cemc/<basename>.meta, or NoFile
    snapshot,    \* snapshots/residential_v1.json, or NoFile
    run,         \* the entry point run last: what ran, how it ended, what it did
    rendered,    \* what format_changes_markdown and format_changes_console returned
    issue        \* the create-issue request sent, or NoIssue

vars == <<chunks, text, pc, hdr, nexts, located, parsed, normalized,
          current, baseline, changes,
          published, cachePdf, cacheMeta, snapshot, run, rendered, issue>>

-----------------------------------------------------------------------------
(* Bounds of the model. *)

\* Chunks joined into a text of the section-locator specification.
MaxLocChunks == 3
\* Entries of a next_header_patterns list.
MaxNext == 2
\* Chunks joined into a document text of the parser specification.
MaxChunks == 3
\* Field phrases following a section header in a field text.
MaxFieldChunks == 2
\* Characters of an enumerated numeric literal.
MaxLitLen == 3
\* Largest number held by an enumerated comparison summary.
MaxVal == 1

-----------------------------------------------------------------------------
(* Python values. *)

Null == [w |-> -1, f |-> <<>>]
NoneStr == <<"None">>

Get(d, k) == IF k \in DOMAIN d THEN d[k] ELSE Null

RECURSIVE Pow10(_)
Pow10(n) == IF n <= 0 THEN 1 ELSE 10 * Pow10(n - 1)

RECURSIVE Join(_, _)
Join(parts, sep) ==
    IF parts = <<>> THEN <<>>
    ELSE IF Len(parts) = 1 THEN parts[1]
    ELSE parts[1] \o sep \o Join(Tail(parts), sep)

SeqsUpTo(S, n) == UNION {[1..k -> S] : k \in 0..n}

Min(S) == CHOOSE x \in S : \A y \in S : x <= y

-----------------------------------------------------------------------------
(* Regular expressions: re.compile(p, re.IGNORECASE | re.DOTALL), re.search *)

UpperCase == <<"A","B","C","D","E","F","G","H","I","J","K","L","M","N","O","P","Q","R","S","T","U","V","W","X","Y","Z">>
LowerCase == <<"a","b","c","d","e","f","g","h","i","j","k","l","m","n","o","p","q","r","s","t","u","v","w","x","y","z">>

\* re.IGNORECASE: a literal letter matches in either case.
CaseSet(c) ==
    IF \E i \in 1..26 : UpperCase[i] = c
    THEN {c, LowerCase[CHOOSE i \in 1..26 : UpperCase[i] = c]}
    ELSE IF \E i \in 1..26 : LowerCase[i] = c
    THEN {c, UpperCase[CHOOSE i \in 1..26 : LowerCase[i] = c]}
    ELSE {c}

Digits == {"0","1","2","3","4","5","6","7","8","9"}
\* \s, as far as the texts use it
WhiteSpace == {" ", "\n", "\t"}

\* An atom of a pattern: a run of literal characters (w, one class per character), or
\* a character class cls under a quantifier q.
One(cls) == <<[cls |-> cls, q |-> "1", w |-> <<>>]>>
Opt(cls) == <<[cls |-> cls, q |-> "?", w |-> <<>>]>>
Star(cls) == <<[cls |-> cls, q |-> "*", w |-> <<>>]>>
Plus(cls) == <<[cls |-> cls, q |-> "+", w |-> <<>>]>>
Lit(word) == <<[cls |-> {}, q |-> "lit", w |-> [i \in 1..Len(word) |-> CaseSet(word[i])]]>>
\* \s+
Ws == Plus(WhiteSpace)
\* [-–]
Dash == One({"-", "ndash"})

\* Length of the longest run of characters of cls starting at t[i].
RECURSIVE RunLen(_, _, _)
RunLen(t, cls, i) ==
    IF i <= Len(t) /\ t[i] \in cls THEN 1 + RunLen(t, cls, i + 1) ELSE 0

\* Match atoms k.. of pat at t[i]: the start offset of each of these atoms followed
\* by the end offset of the match, or <<>>.  Quantifiers are greedy and backtrack.
RECURSIVE MatchFrom(_, _, _, _), TryCount(_, _, _, _, _, _)
MatchFrom(t, pat, i, k) ==
    IF k > Len(pat) THEN <<i>>
    ELSE LET a == pat[k]
             fits == i <= Len(t) /\ t[i] \in a.cls
             n == Len(a.w)
         IN  IF a.q = "lit"
             THEN IF i + n - 1 <= Len(t) /\ \A j \in 1..n : t[i + j - 1] \in a.w[j]
                  THEN TryCount(t, pat, i, k, n, n) ELSE <<>>
             ELSE IF a.q = "1"
             THEN IF fits THEN TryCount(t, pat, i, k, 1, 1) ELSE <<>>
             ELSE IF a.q = "?"
             THEN TryCount(t, pat, i, k, IF fits THEN 1 ELSE 0, 0)
             ELSE TryCount(t, pat, i, k, RunLen(t, a.cls, i), IF a.q = "+" THEN 1 ELSE 0)
TryCount(t, pat, i, k, c, least) ==
    IF c < least THEN <<>>
    ELSE LET r == MatchFrom(t, pat, i + c, k + 1)
         IN  IF r # <<>> THEN <<i>> \o r
             ELSE TryCount(t, pat, i, k, c - 1, least)

\* regex.search(t, pos): the leftmost match starting at offset >= pos, or <<>>.
Search(t, pat, pos) ==
    LET starts == {i \in pos..Len(t) : MatchFrom(t, pat, i, 1) # <<>>}
    IN  IF starts = {} THEN <<>> ELSE MatchFrom(t, pat, Min(starts), 1)

MStart(m) == m[1]
MEnd(m) == m[Len(m)]
\* m.group(1), the group spanning atoms g1..g2 of the pattern
Group(t, m, g1, g2) == SubSeq(t, m[g1], m[g2 + 1] - 1)

\* the words of the patterns
W ==
    [
     RESIDENTIAL |-> <<"R","E","S","I","D","E","N","T","I","A","L">>,
     RATE |-> <<"R","A","T","E">>,
     SCHEDULE |-> <<"S","C","H","E","D","U","L","E">>,
     RS |-> <<"R","S">>,
     SUPPLEMENTAL |-> <<"S","U","P","P","L","E","M","E","N","T","A","L">>,
     SRS |-> <<"S","R","S">>,
     GENERAL |-> <<"G","E","N","E","R","A","L">>,
     POWER |-> <<"P","O","W","E","R">>,
     SEASONAL |-> <<"S","E","A","S","O","N","A","L">>,
     TIME |-> <<"T","I","M","E">>,
     OF |-> <<"O","F">>,
     USE_ |-> <<"U","S","E">>,
     Customer |-> <<"C","u","s","t","o","m","e","r">>,
     Charge |-> <<"C","h","a","r","g","e">>,
     Energy |-> <<"E","n","e","r","g","y">>,
     TVA |-> <<"T","V","A">>,
     Fuel |-> <<"F","u","e","l">>,
     Part |-> <<"P","a","r","t">>]

\* r"RESIDENTIAL\s+RATE\s+[-–]\s+SCHEDULE\s+RS"
PAT_RS ==
    Lit(W.RESIDENTIAL) \o Ws \o Lit(W.RATE) \o Ws \o Dash \o Ws \o Lit(W.SCHEDULE) \o Ws \o Lit(W.RS)
\* r"SUPPLEMENTAL\s+RESIDENTIAL\s+RATE\s+[-–]\s+SCHEDULE\s+SRS"
PAT_SRS ==
    Lit(W.SUPPLEMENTAL) \o Ws \o Lit(W.RESIDENTIAL) \o Ws \o Lit(W.RATE) \o Ws \o Dash \o Ws
        \o Lit(W.SCHEDULE) \o Ws \o Lit(W.SRS)
\* r"GENERAL\s+POWER\s+RATE"
PAT_GP == Lit(W.GENERAL) \o Ws \o Lit(W.POWER) \o Ws \o Lit(W.RATE)
\* r"SEASONAL\s+RESIDENTIAL\s+RATE\s+[-–]\s+SCHEDULE"
PAT_SEASONAL ==
    Lit(W.SEASONAL) \o Ws \o Lit(W.RESIDENTIAL) \o Ws \o Lit(W.RATE) \o Ws \o Dash \o Ws \o Lit(W.SCHEDULE)
\* r"RESIDENTIAL\s+TIME\s+OF\s+USE\s+RATE\s+[-–]\s+SCHEDULE"
PAT_TOU ==
    Lit(W.RESIDENTIAL) \o Ws \o Lit(W.TIME) \o Ws \o Lit(W.OF) \o Ws \o Lit(W.USE_) \o Ws
        \o Lit(W.RATE) \o Ws \o Dash \o Ws \o Lit(W.SCHEDULE)
\* r"RESIDENTIAL\s+TIME"
PAT_RES_TIME == Lit(W.RESIDENTIAL) \o Ws \o Lit(W.TIME)

-----------------------------------------------------------------------------
(* Section Locator *)

\* The offsets at which the nearest match of each next-header pattern starts.
EndCandidates(t, start, next_header_patterns) ==
    {MStart(Search(t, next_header_patterns[j], start + 1)) :
        j \in {j \in 1..Len(next_header_patterns) :
                  Search(t, next_header_patterns[j], start + 1) # <<>>}}

\* _find_section ending the section at the farthest candidate
_find_section_farthest_end(t, header_pattern, next_header_patterns) ==
    LET m == Search(t, header_pattern, 1)
    IN  IF m = <<>> THEN NoneStr
        ELSE LET start == MStart(m)
                 end_candidates == EndCandidates(t, start, next_header_patterns)
             IN  IF end_candidates = {} THEN SubSeq(t, start, Len(t))
                 ELSE SubSeq(t, start,
                             (CHOOSE x \in end_candidates : \A y \in end_candidates : y <= x) - 1)

_find_section(t, header_pattern, next_header_patterns) ==
    LET m == Search(t, header_pattern, 1)
    IN  IF m = <<>> THEN NoneStr
        ELSE LET start == MStart(m)
                 end_candidates == EndCandidates(t, start, next_header_patterns)
             IN  IF next_header_patterns = <<>> THEN SubSeq(t, start, Len(t))
                 ELSE IF end_candidates = {} THEN SubSeq(t, start, Len(t))
                 ELSE SubSeq(t, start, Min(end_candidates) - 1)

-----------------------------------------------------------------------------
(* Field Extractor *)

DigitSeq == <<"0","1","2","3","4","5","6","7","8","9">>
DigitVal(c) == (CHOOSE i \in 1..10 : DigitSeq[i] = c) - 1

RECURSIVE DigitsValue(_)
DigitsValue(s) ==
    IF s = <<>> THEN 0
    ELSE 10 * DigitsValue(SubSeq(s, 1, Len(s) - 1)) + DigitVal(s[Len(s)])

RECURSIVE TrimZeros(_)
TrimZeros(ds) ==
    IF ds # <<>> /\ ds[Len(ds)] = 0 THEN TrimZeros(SubSeq(ds, 1, Len(ds) - 1)) ELSE ds

Flt(whole, fracDigits) == [w |-> whole, f |-> TrimZeros(fracDigits)]

\* s.replace(",", "")
RECURSIVE RemoveCommas(_)
RemoveCommas(s) ==
    IF s = <<>> THEN <<>>
    ELSE IF Head(s) = "," THEN RemoveCommas(Tail(s))
    ELSE <<Head(s)>> \o RemoveCommas(Tail(s))

\* s.strip()
RECURSIVE Strip(_)
Strip(s) ==
    IF s # <<>> /\ Head(s) \in WhiteSpace THEN Strip(Tail(s))
    ELSE IF s # <<>> /\ s[Len(s)] \in WhiteSpace THEN Strip(SubSeq(s, 1, Len(s) - 1))
    ELSE s

\* float(s) for s made of the characters the field patterns let through; Null stands
\* for the ValueError.
ParseFloat(s) ==
    LET dots == {i \in 1..Len(s) : s[i] = "."}
    IN  IF \/ \E i \in 1..Len(s) : s[i] \notin Digits \cup {"."}
           \/ Cardinality(dots) > 1
           \/ \A i \in 1..Len(s) : s[i] \notin Digits
        THEN Null
        ELSE LET d == IF dots = {} THEN Len(s) + 1 ELSE CHOOSE i \in dots : TRUE
                 frac == SubSeq(s, d + 1, Len(s))
             IN  Flt(DigitsValue(SubSeq(s, 1, d - 1)),
                     [i \in 1..Len(frac) |-> DigitVal(frac[i])])

\* _clean_float without the removal of commas
_clean_float_keeps_commas(s) ==
    LET s1 == Strip(s)
        s2 == IF s1 # <<>> /\ Head(s1) = "." THEN <<"0">> \o s1 ELSE s1
    IN  ParseFloat(s2)

_clean_float(s) ==
    LET s1 == Strip(RemoveCommas(s))
        s2 == IF s1 # <<>> /\ Head(s1) = "." THEN <<"0">> \o s1 ELSE s1
    IN  ParseFloat(s2)

\* [:\s]*\$?
LabelTail == Star({":"} \cup WhiteSpace) \o Opt({"$"})
\* ([\d,]*\.?\d+)
GroupPlain == Star(Digits \cup {","}) \o Opt({"."}) \o Plus(Digits)
\* ([\d.,]*\.?\d+)
GroupDotted == Star(Digits \cup {".", ","}) \o Opt({"."}) \o Plus(Digits)

\* A field pattern: its atoms and the atoms group 1 spans.
FieldPattern(label, grp, trail) ==
    [pat |-> label \o LabelTail \o grp \o trail,
     g1 |-> Len(label) + Len(LabelTail) + 1,
     g2 |-> Len(label) + Len(LabelTail) + Len(grp)]

\* r"Customer\s+Charge[:\s]*\$?([\d,]*\.?\d+)"
PAT_CUSTOMER == FieldPattern(Lit(W.Customer) \o Ws \o Lit(W.Charge), GroupPlain, <<>>)
\* r"Energy\s+Charge[:\s]*\$?([\d.,]*\.?\d+)\$?"
PAT_ENERGY == FieldPattern(Lit(W.Energy) \o Ws \o Lit(W.Charge), GroupDotted, Opt({"$"}))
\* r"TVA\s+Fuel\s+Charge[:\s]*\$?([\d.,]*\.?\d+)\$?"
PAT_TVA ==
    FieldPattern(Lit(W.TVA) \o Ws \o Lit(W.Fuel) \o Ws \o Lit(W.Charge), GroupDotted, Opt({"$"}))
\* r"Part\s*A[:\s]*\$?([\d,]*\.?\d+)"
PAT_PART_A == FieldPattern(Lit(W.Part) \o Star(WhiteSpace) \o Lit(<<"A">>), GroupPlain, <<>>)
\* r"Part\s*B[:\s]*\$?([\d,]*\.?\d+)"
PAT_PART_B == FieldPattern(Lit(W.Part) \o Star(WhiteSpace) \o Lit(<<"B">>), GroupPlain, <<>>)

\* _clean_float(m.group(1)) if m else None, for m = re.search(pattern, section)
ExtractNumeric(section, fp) ==
    LET m == Search(section, fp.pat, 1)
    IN  IF m = <<>> THEN Null ELSE _clean_float(Group(section, m, fp.g1, fp.g2))

-----------------------------------------------------------------------------
(* Rate Parser *)

\* "if not section": None and the empty string are falsy
Falsy(section) == section = NoneStr \/ section = <<>>

parse_residential_standard_blocking(section) ==
    IF Falsy(section)
    THEN [is_present |-> FALSE, raw_section |-> NoneStr]
    ELSE LET customer_charge == ExtractNumeric(section, PAT_CUSTOMER)
         IN  [is_present |-> TRUE,
              raw_section |-> section,
              customer_charge_usd_per_month |-> customer_charge,
              energy_rate_usd_per_kwh |->
                  IF customer_charge = Null THEN Null ELSE ExtractNumeric(section, PAT_ENERGY),
              tva_fuel_rate_usd_per_kwh |->
                  IF customer_charge = Null THEN Null ELSE ExtractNumeric(section, PAT_TVA)]

parse_residential_standard(section) ==
    IF Falsy(section)
    THEN [is_present |-> FALSE, raw_section |-> NoneStr]
    ELSE [is_present |-> TRUE,
          raw_section |-> section,
          customer_charge_usd_per_month |-> ExtractNumeric(section, PAT_CUSTOMER),
          energy_rate_usd_per_kwh |-> ExtractNumeric(section, PAT_ENERGY),
          tva_fuel_rate_usd_per_kwh |-> ExtractNumeric(section, PAT_TVA)]

parse_residential_supplemental(section) ==
    IF Falsy(section)
    THEN [is_present |-> FALSE, raw_section |-> NoneStr]
    ELSE [is_present |-> TRUE,
          raw_section |-> section,
          customer_charge_part_a_usd_per_month |-> ExtractNumeric(section, PAT_PART_A),
          customer_charge_part_b_usd_per_month |-> ExtractNumeric(section, PAT_PART_B),
          energy_rate_usd_per_kwh |-> ExtractNumeric(section, PAT_ENERGY),
          tva_fuel_rate_usd_per_kwh |-> ExtractNumeric(section, PAT_TVA)]

\* The months and hours are None, or would be lists: NoneStr.
\* parse_residential_seasonal reading the energy charge of a section it found
parse_residential_seasonal_extracts(section) ==
    [is_present |-> ~Falsy(section),
     raw_section |-> IF Falsy(section) THEN NoneStr ELSE section,
     summer_rate_usd_per_kwh |-> IF Falsy(section) THEN Null ELSE ExtractNumeric(section, PAT_ENERGY),
     winter_rate_usd_per_kwh |-> Null,
     summer_months |-> NoneStr,
     winter_months |-> NoneStr]

parse_residential_seasonal(section) ==
    [is_present |-> ~Falsy(section),
     raw_section |-> IF Falsy(section) THEN NoneStr ELSE section,
     summer_rate_usd_per_kwh |-> Null,
     winter_rate_usd_per_kwh |-> Null,
     summer_months |-> NoneStr,
     winter_months |-> NoneStr]

parse_residential_tou(section) ==
    [is_present |-> ~Falsy(section),
     raw_section |-> IF Falsy(section) THEN NoneStr ELSE section,
     on_peak_rate_usd_per_kwh |-> Null,
     off_peak_rate_usd_per_kwh |-> Null,
     shoulder_rate_usd_per_kwh |-> Null,
     on_peak_hours |-> NoneStr,
     off_peak_hours |-> NoneStr,
     shoulder_hours |-> NoneStr]

rs_section(t) == _find_section(t, PAT_RS, <<PAT_SRS, PAT_GP>>)
srs_section(t) == _find_section(t, PAT_SRS, <<PAT_GP>>)
seasonal_section(t) == _find_section(t, PAT_SEASONAL, <<PAT_GP, PAT_RES_TIME>>)
tou_section(t) == _find_section(t, PAT_TOU, <<PAT_GP>>)

\* parse_pdf, given the text pdf_to_text extracted
parse_pdf(t) ==
    [raw_text |-> t,
     residential_standard |-> parse_residential_standard(rs_section(t)),
     residential_supplemental |-> parse_residential_supplemental(srs_section(t)),
     residential_seasonal |-> parse_residential_seasonal(seasonal_section(t)),
     residential_tou |-> parse_residential_tou(tou_section(t))]

-----------------------------------------------------------------------------
(* Normalizer *)

GetOr(d, k, default) == IF k \in DOMAIN d THEN d[k] ELSE default

Digit(ds, i) == IF i <= Len(ds) THEN ds[i] ELSE 0

\* val * 100: the decimal point moves two places
Times100(v) ==
    Flt(v.w * 100 + Digit(v.f, 1) * 10 + Digit(v.f, 2), SubSeq(v.f, 3, Len(v.f)))

RECURSIVE DigitsToInt(_)
DigitsToInt(ds) ==
    IF ds = <<>> THEN 0 ELSE 10 * DigitsToInt(SubSeq(ds, 1, Len(ds) - 1)) + ds[Len(ds)]

\* the n digits of q < 10^n
IntToDigits(q, n) == [i \in 1..n |-> (q \div Pow10(n - i)) % 10]

\* round(v, ndigits).  A value exactly halfway between two neighbours goes where the
\* binary value of the float lies, which the decimal does not tell: tie decides.
Round(v, ndigits, tie) ==
    IF Len(v.f) <= ndigits THEN v
    ELSE LET kept == [i \in 1..ndigits |-> v.f[i]]
             rest == SubSeq(v.f, ndigits + 1, Len(v.f))
             up == \/ rest[1] > 5
                   \/ rest[1] = 5 /\ Len(rest) > 1
                   \/ rest = <<5>> /\ tie = "up"
             q == DigitsToInt(kept) + 1
         IN  IF ~up THEN Flt(v.w, kept)
             ELSE IF q = Pow10(ndigits) THEN Flt(v.w + 1, <<>>)
             ELSE Flt(v.w, IntToDigits(q, ndigits))

CentsDigits == 5

_cents_two_places(val, tie) == IF val # Null THEN Round(Times100(val), 2, tie) ELSE Null

_cents(val, tie) == IF val # Null THEN Round(Times100(val), CentsDigits, tie) ELSE Null

\* normalize filling part A of the customer charge from part B
normalize_part_b_twice(p, now, tie) ==
    LET rs == GetOr(p, "residential_standard", <<>>)
        srs == GetOr(p, "residential_supplemental", <<>>)
        seasonal == GetOr(p, "residential_seasonal", <<>>)
        tou == GetOr(p, "residential_tou", <<>>)
    IN  [utility |-> "CEMC",
         source |-> "CEMC Current Rates PDF",
         source_url |-> "https://cemc.org/my-account/#residential-rates",
         fetched_at |-> now,
         rates |->
           [residential_standard |->
              [is_present |-> GetOr(rs, "is_present", FALSE),
               customer_charge_monthly_usd |-> Get(rs, "customer_charge_usd_per_month"),
               energy_rate_usd_per_kwh |-> Get(rs, "energy_rate_usd_per_kwh"),
               energy_rate_cents_per_kwh |-> _cents(Get(rs, "energy_rate_usd_per_kwh"), tie),
               tva_fuel_rate_usd_per_kwh |-> Get(rs, "tva_fuel_rate_usd_per_kwh"),
               tva_fuel_rate_cents_per_kwh |-> _cents(Get(rs, "tva_fuel_rate_usd_per_kwh"), tie),
               raw_section |-> GetOr(rs, "raw_section", NoneStr)],
            residential_supplemental |->
              [is_present |-> GetOr(srs, "is_present", FALSE),
               customer_charge_part_a_monthly_usd |->
                   Get(srs, "customer_charge_part_b_usd_per_month"),
               customer_charge_part_b_monthly_usd |->
                   Get(srs, "customer_charge_part_b_usd_per_month"),
               energy_rate_usd_per_kwh |-> Get(srs, "energy_rate_usd_per_kwh"),
               energy_rate_cents_per_kwh |-> _cents(Get(srs, "energy_rate_usd_per_kwh"), tie),
               tva_fuel_rate_usd_per_kwh |-> Get(srs, "tva_fuel_rate_usd_per_kwh"),
               tva_fuel_rate_cents_per_kwh |-> _cents(Get(srs, "tva_fuel_rate_usd_per_kwh"), tie),
               raw_section |-> GetOr(srs, "raw_section", NoneStr)],
            residential_seasonal |-> seasonal,
            residential_tou |-> tou]]

normalize(p, now, tie) ==
    LET rs == GetOr(p, "residential_standard", <<>>)
        srs == GetOr(p, "residential_supplemental", <<>>)
        seasonal == GetOr(p, "residential_seasonal", <<>>)
        tou == GetOr(p, "residential_tou", <<>>)
    IN  [utility |-> "CEMC",
         source |-> "CEMC Current Rates PDF",
         source_url |-> "https://cemc.org/my-account/#residential-rates",
         fetched_at |-> now,
         rates |->
           [residential_standard |->
              [is_present |-> GetOr(rs, "is_present", FALSE),
               customer_charge_monthly_usd |-> Get(rs, "customer_charge_usd_per_month"),
               energy_rate_usd_per_kwh |-> Get(rs, "energy_rate_usd_per_kwh"),
               energy_rate_cents_per_kwh |-> _cents(Get(rs, "energy_rate_usd_per_kwh"), tie),
               tva_fuel_rate_usd_per_kwh |-> Get(rs, "tva_fuel_rate_usd_per_kwh"),
               tva_fuel_rate_cents_per_kwh |-> _cents(Get(rs, "tva_fuel_rate_usd_per_kwh"), tie),
               raw_section |-> GetOr(rs, "raw_section", NoneStr)],
            residential_supplemental |->
              [is_present |-> GetOr(srs, "is_present", FALSE),
               customer_charge_part_a_monthly_usd |->
                   Get(srs, "customer_charge_part_a_usd_per_month"),
               customer_charge_part_b_monthly_usd |->
                   Get(srs, "customer_charge_part_b_usd_per_month"),
               energy_rate_usd_per_kwh |-> Get(srs, "energy_rate_usd_per_kwh"),
               energy_rate_cents_per_kwh |-> _cents(Get(srs, "energy_rate_usd_per_kwh"), tie),
               tva_fuel_rate_usd_per_kwh |-> Get(srs, "tva_fuel_rate_usd_per_kwh"),
               tva_fuel_rate_cents_per_kwh |-> _cents(Get(srs, "tva_fuel_rate_usd_per_kwh"), tie),
               raw_section |-> GetOr(srs, "raw_section", NoneStr)],
            residential_seasonal |-> seasonal,
            residential_tou |-> tou]]

-----------------------------------------------------------------------------
(* Differ *)

\* extract_residential_summary reading the supplemental energy rate from the standard
\* section
extract_residential_summary_wrong_section(p) ==
    LET rs == p["residential_standard"]
        srs == p["residential_supplemental"]
    IN  [residential_standard |->
           [customer_charge |-> Get(rs, "customer_charge_usd_per_month"),
            energy_rate |-> Get(rs, "energy_rate_usd_per_kwh"),
            tva_fuel_rate |-> Get(rs, "tva_fuel_rate_usd_per_kwh")],
         residential_supplemental |->
           [part_a |-> Get(srs, "customer_charge_part_a_usd_per_month"),
            part_b |-> Get(srs, "customer_charge_part_b_usd_per_month"),
            energy_rate |-> Get(rs, "energy_rate_usd_per_kwh"),
            tva_fuel_rate |-> Get(srs, "tva_fuel_rate_usd_per_kwh")]]

extract_residential_summary(p) ==
    LET rs == p["residential_standard"]
        srs == p["residential_supplemental"]
    IN  [residential_standard |->
           [customer_charge |-> Get(rs, "customer_charge_usd_per_month"),
            energy_rate |-> Get(rs, "energy_rate_usd_per_kwh"),
            tva_fuel_rate |-> Get(rs, "tva_fuel_rate_usd_per_kwh")],
         residential_supplemental |->
           [part_a |-> Get(srs, "customer_charge_part_a_usd_per_month"),
            part_b |-> Get(srs, "customer_charge_part_b_usd_per_month"),
            energy_rate |-> Get(srs, "energy_rate_usd_per_kwh"),
            tva_fuel_rate |-> Get(srs, "tva_fuel_rate_usd_per_kwh")]]

FieldChange(section, field, old, new) ==
    [section |-> section, field |-> field, old |-> old, new |-> new]

\* The summary keys in the order Python's string comparison gives them.
KeyOrder == <<"customer_charge", "energy_rate", "part_a", "part_b", "tva_fuel_rate">>

\* sorted(keys), as a sequence
RECURSIVE SortedFrom(_, _)
SortedFrom(keys, i) ==
    IF i > Len(KeyOrder) THEN <<>>
    ELSE (IF KeyOrder[i] \in keys THEN <<KeyOrder[i]>> ELSE <<>>) \o SortedFrom(keys, i + 1)
Sorted(keys) == SortedFrom(keys, 1)

RECURSIVE SectionChanges_none_is_change(_, _, _, _)
SectionChanges_none_is_change(section, curr_section, base_section, all_fields) ==
    IF all_fields = <<>> THEN <<>>
    ELSE LET field == Head(all_fields)
             old == Get(base_section, field)
             new == Get(curr_section, field)
         IN  (IF old # new \/ new = Null THEN <<FieldChange(section, field, old, new)>> ELSE <<>>)
                \o SectionChanges_none_is_change(section, curr_section, base_section,
                                                 Tail(all_fields))

\* The changes of one section: the loop body of diff_summaries over all_fields.
RECURSIVE SectionChanges(_, _, _, _)
SectionChanges(section, curr_section, base_section, all_fields) ==
    IF all_fields = <<>> THEN <<>>
    ELSE LET field == Head(all_fields)
             old == Get(base_section, field)
             new == Get(curr_section, field)
         IN  (IF old # new THEN <<FieldChange(section, field, old, new)>> ELSE <<>>)
                \o SectionChanges(section, curr_section, base_section, Tail(all_fields))

DiffSection_current_keys(cur, base, section) ==
    LET curr_section == GetOr(cur, section, <<>>)
        base_section == GetOr(base, section, <<>>)
        all_fields == Sorted(DOMAIN curr_section)
    IN  SectionChanges(section, curr_section, base_section, all_fields)

DiffSection(cur, base, section) ==
    LET curr_section == GetOr(cur, section, <<>>)
        base_section == GetOr(base, section, <<>>)
        all_fields == Sorted(DOMAIN curr_section \cup DOMAIN base_section)
    IN  SectionChanges(section, curr_section, base_section, all_fields)

\* diff_summaries walking the supplemental section first
diff_summaries_supplemental_first(cur, base) ==
    DiffSection(cur, base, "residential_supplemental")
        \o DiffSection(cur, base, "residential_standard")

diff_summaries(cur, base) ==
    DiffSection(cur, base, "residential_standard")
        \o DiffSection(cur, base, "residential_supplemental")

-----------------------------------------------------------------------------
(* Document texts the specifications draw from: a document is a sequence of *)
(* phrases, each a section header, a mention, or a field label with a       *)
(* literal, joined by line breaks.                                            *)

\* the headers as the sheet prints them; RTIME is body text that mentions residential
\* time without being a schedule header
TXT ==
    [
     RS |-> <<"R","E","S","I","D","E","N","T","I","A","L"," ","R","A","T","E"," ","-"," ","S","C","H","E","D","U","L","E"," ","R","S">>,
     SRS |-> <<"S","U","P","P","L","E","M","E","N","T","A","L"," ","R","E","S","I","D","E","N","T","I","A","L"," ","R","A","T","E"," ","ndash"," ","S","C","H","E","D","U","L","E"," ","S","R","S">>,
     GP |-> <<"G","e","n","e","r","a","l"," ","P","o","w","e","r"," ","R","a","t","e">>,
     SEAS |-> <<"S","E","A","S","O","N","A","L"," ","R","E","S","I","D","E","N","T","I","A","L"," ","R","A","T","E"," ","-"," ","S","C","H","E","D","U","L","E">>,
     TOU |-> <<"R","E","S","I","D","E","N","T","I","A","L"," ","T","I","M","E"," ","O","F"," ","U","S","E"," ","R","A","T","E"," ","ndash"," ","S","C","H","E","D","U","L","E">>,
     RTIME |-> <<"r","e","s","i","d","e","n","t","i","a","l"," ","t","i","m","e">>,
     PER_KWH |-> <<" ","p","e","r"," ","k","W","h">>]
\* the labels of the charges
LBL ==
    [
     Customer |-> <<"C","u","s","t","o","m","e","r"," ","C","h","a","r","g","e",":"," ","$">>,
     Energy |-> <<"E","n","e","r","g","y"," ","C","h","a","r","g","e",":"," ","$">>,
     TVA |-> <<"T","V","A"," ","F","u","e","l"," ","C","h","a","r","g","e",":"," ","$">>,
     PartA |-> <<"P","a","r","t"," ","A",":"," ","$">>,
     PartB |-> <<"P","a","r","t"," ","B"," ","$">>]
NL == <<"\n">>

\* numeric literals
LIT ==
    [
     v39_00 |-> <<"3","9",".","0","0">>,
     v08058 |-> <<".","0","8","0","5","8">>,
     v02177 |-> <<".","0","2","1","7","7">>,
     v28_00 |-> <<"2","8",".","0","0">>,
     v40_54 |-> <<"4","0",".","5","4">>,
     v08061 |-> <<".","0","8","0","6","1">>,
     v1_234_5 |-> <<"1",",","2","3","4",".","5">>,
     v1_2_3 |-> <<"1",".","2",".","3">>,
     vTINY |-> <<".","0","0","0","0","0","0","0","1">>,
     vHALF |-> <<".","0","0","0","0","0","0","1","5">>,
     v0821 |-> <<".","0","8","2","1">>]

HeaderLabels == {"RS", "SRS", "GP", "SEASONAL", "TOU", "RES_TIME"}
StdLabels == {"Customer", "Energy", "TVA"}
SupLabels == {"PartA", "PartB", "Energy", "TVA"}

Phrase(label, lit) == [label |-> label, lit |-> lit]
Header(label) == Phrase(label, <<>>)

PhraseText(c) ==
    CASE c.label = "RS" -> TXT.RS
      [] c.label = "SRS" -> TXT.SRS
      [] c.label = "GP" -> TXT.GP
      [] c.label = "SEASONAL" -> TXT.SEAS
      [] c.label = "TOU" -> TXT.TOU
      [] c.label = "RES_TIME" -> TXT.RTIME
      [] c.label = "Customer" -> LBL.Customer \o c.lit
      [] c.label = "Energy" -> LBL.Energy \o c.lit \o TXT.PER_KWH
      [] c.label = "TVA" -> LBL.TVA \o c.lit \o TXT.PER_KWH
      [] c.label = "PartA" -> LBL.PartA \o c.lit
      [] c.label = "PartB" -> LBL.PartB \o c.lit

DocText(cs) == Join([i \in 1..Len(cs) |-> PhraseText(cs[i])], NL)

\* The patterns parse_pdf hands to _find_section, by name.
PatternOf(name) ==
    CASE name = "RS" -> PAT_RS
      [] name = "SRS" -> PAT_SRS
      [] name = "GP" -> PAT_GP
      [] name = "SEASONAL" -> PAT_SEASONAL
      [] name = "TOU" -> PAT_TOU
      [] name = "RES_TIME" -> PAT_RES_TIME

Patterns(names) == [j \in 1..Len(names) |-> PatternOf(names[j])]

LocDocs == SeqsUpTo({Header(l) : l \in {"RS", "GP", "TOU", "RES_TIME"}}, MaxLocChunks)
LocHeaders == {"RS", "GP", "RES_TIME"}
LocNexts == SeqsUpTo({"GP", "TOU", "RES_TIME"}, MaxNext)

\* a well-formed literal, one float() rejects, and none
FieldLits == {LIT.v39_00, LIT.v1_2_3, <<>>}
LitChars == {"1", "5", ".", ","}
EnumLits ==
    (SeqsUpTo(LitChars, MaxLitLen) \ {<<>>})
        \cup {LIT.v39_00, LIT.v08058, LIT.v02177, LIT.v1_234_5, LIT.v1_2_3, LIT.vTINY, LIT.vHALF}

HeaderDocs == SeqsUpTo({Header(l) : l \in HeaderLabels}, MaxChunks)
StdFieldDocs ==
    {<<Header("RS")>> \o fs :
        fs \in SeqsUpTo({Phrase(l, x) : l \in StdLabels, x \in FieldLits}, MaxFieldChunks)}
SupFieldDocs ==
    {<<Header("SRS")>> \o fs :
        fs \in SeqsUpTo({Phrase(l, x) : l \in SupLabels, x \in FieldLits}, MaxFieldChunks)}
LiteralDocs ==
    {<<Header(h), Phrase(l, x)>> : h \in {"RS", "SRS"}, l \in {"Customer", "Energy"}, x \in EnumLits}
\* the rate sheet of the tests: both schedules, then the general power schedule
SheetDoc ==
    <<Header("RS"), Phrase("Customer", LIT.v39_00), Phrase("Energy", LIT.v08058),
      Phrase("TVA", LIT.v02177),
      Header("SRS"), Phrase("PartA", LIT.v28_00), Phrase("PartB", LIT.v40_54),
      Phrase("Energy", LIT.v08061), Phrase("TVA", LIT.v02177),
      Header("GP"), Phrase("Customer", LIT.v1_234_5)>>
\* a seasonal and a time-of-use schedule that state an energy charge
PlaceholderDocs == {<<Header(h), Phrase("Energy", LIT.v08058)>> : h \in {"SEASONAL", "TOU"}}
ParseDocs ==
    HeaderDocs \cup StdFieldDocs \cup SupFieldDocs \cup LiteralDocs \cup PlaceholderDocs
        \cup {SheetDoc}

-----------------------------------------------------------------------------
(* Files and runs. *)

\* a path at which no file exists
NoFile == [absent |-> TRUE]
\* the cached document: what text extraction reads from it
PdfFile(t) == [pages |-> t]
Idle == [op |-> "none", outcome |-> "none", message |-> <<>>, log |-> <<>>]

\* no renderer has returned yet; no create-issue request was sent
NoRender == [markdown |-> NoneStr, console |-> NoneStr]
NoIssue == [absent |-> TRUE]
-----------------------------------------------------------------------------
(* Drivers of the pure functions. *)

NoDoc == <<>>

InitPipelineIdle ==
    /\ published = <<>> /\ cachePdf = NoFile /\ cacheMeta = NoFile /\ snapshot = NoFile
    /\ run = Idle
    /\ rendered = NoRender /\ issue = NoIssue

InitLocate ==
    /\ chunks \in LocDocs
    /\ text = DocText(chunks)
    /\ pc = "text"
    /\ hdr = "" /\ nexts = <<>> /\ located = NoneStr
    /\ parsed = NoDoc /\ normalized = NoDoc
    /\ current = <<>> /\ baseline = <<>> /\ changes = <<>>
    /\ InitPipelineIdle

FindSection ==
    /\ pc = "text"
    /\ \E h \in LocHeaders, nx \in LocNexts :
          /\ hdr' = h
          /\ nexts' = nx
          /\ located' = _find_section(text, PatternOf(h), Patterns(nx))
    /\ pc' = "located"
    /\ UNCHANGED <<rendered, issue, chunks, text, parsed, normalized, current, baseline, changes,
                   published, cachePdf, cacheMeta, snapshot, run>>

SpecLocate == InitLocate /\ [][FindSection]_vars

Instants == {"t0", "t1"}

InitParse ==
    /\ chunks \in ParseDocs
    /\ text = DocText(chunks)
    /\ pc = "text"
    /\ hdr = "" /\ nexts = <<>> /\ located = NoneStr
    /\ parsed = NoDoc /\ normalized = NoDoc
    /\ current = <<>> /\ baseline = <<>> /\ changes = <<>>
    /\ InitPipelineIdle

ParsePdf ==
    /\ pc = "text"
    /\ parsed' = parse_pdf(text)
    /\ pc' = "parsed"
    /\ UNCHANGED <<rendered, issue, chunks, text, hdr, nexts, located, normalized, current, baseline, changes,
                   published, cachePdf, cacheMeta, snapshot, run>>

Normalize ==
    /\ pc = "parsed"
    /\ \E now \in Instants, tie \in {"down", "up"} : normalized' = normalize(parsed, now, tie)
    /\ pc' = "normalized"
    /\ UNCHANGED <<rendered, issue, chunks, text, hdr, nexts, located, parsed, current, baseline, changes,
                   published, cachePdf, cacheMeta, snapshot, run>>

\* diff_summaries of a document's summary against itself
SummarizeAndDiff ==
    /\ pc = "parsed"
    /\ current' = extract_residential_summary(parsed)
    /\ baseline' = extract_residential_summary(parsed)
    /\ changes' = diff_summaries(current', baseline')
    /\ pc' = "diffed"
    /\ UNCHANGED <<rendered, issue, chunks, text, hdr, nexts, located, parsed, normalized,
                   published, cachePdf, cacheMeta, snapshot, run>>

NextParse == ParsePdf \/ Normalize \/ SummarizeAndDiff

SpecParse == InitParse /\ [][NextParse]_vars

Sections == {"residential_standard", "residential_supplemental"}
StdKeys == {"customer_charge", "energy_rate", "tva_fuel_rate"}
SupKeys == {"part_a", "part_b", "energy_rate", "tva_fuel_rate"}

\* The values a summary field takes: None and a few numbers.
Values == {Null} \cup {Flt(v, <<>>) : v \in 0..MaxVal}
\* The dicts over some of the keys: a key may be missing.
Dicts(keys) == UNION {[S -> Values] : S \in SUBSET keys}

\* the snapshot of the tests
StdRef ==
    [customer_charge |-> Flt(39, <<>>), energy_rate |-> Flt(0, <<0, 8, 0, 5, 8>>),
     tva_fuel_rate |-> Flt(0, <<0, 2, 1, 7, 7>>)]
SupRef ==
    [part_a |-> Flt(28, <<>>), part_b |-> Flt(40, <<5, 4>>),
     energy_rate |-> Flt(0, <<0, 8, 0, 6, 1>>), tva_fuel_rate |-> Flt(0, <<0, 2, 1, 7, 7>>)]
Summary(std, sup) == [residential_standard |-> std, residential_supplemental |-> sup]

\* Pairs of summaries: the standard section varied, the supplemental section varied,
\* and both varied in one field with a section possibly missing.
StdPairs == {<<Summary(a, SupRef), Summary(b, SupRef)>> : a, b \in Dicts(StdKeys)}
SupPairs ==
    {<<Summary(StdRef, a), Summary(StdRef, b)>> : a, b \in Dicts(SupKeys \ {"energy_rate"})}
SparseSummaries == UNION {[S -> Dicts({"energy_rate"})] : S \in SUBSET Sections}
SparsePairs == SparseSummaries \X SparseSummaries
\* test_diff_detects_changes, with the new rate of the specification's example
TestPair ==
    <<Summary([StdRef EXCEPT !.energy_rate = Flt(0, <<0, 8, 2, 1>>)], SupRef), Summary(StdRef, SupRef)>>
\* both sections moved away from the snapshot of the tests
BothPairs ==
    {<<Summary(a, b), Summary(StdRef, SupRef)>> :
        a \in Dicts(StdKeys), b \in Dicts(SupKeys \ {"energy_rate"})}
DiffPairs == StdPairs \cup SupPairs \cup SparsePairs \cup BothPairs \cup {TestPair}

InitDiff ==
    /\ \E p \in DiffPairs : current = p[1] /\ baseline = p[2]
    /\ changes = <<>>
    /\ pc = "summaries"
    /\ chunks = <<>> /\ text = <<>>
    /\ hdr = "" /\ nexts = <<>> /\ located = NoneStr
    /\ parsed = NoDoc /\ normalized = NoDoc
    /\ InitPipelineIdle

DiffSummaries ==
    /\ pc = "summaries"
    /\ changes' = diff_summaries(current, baseline)
    /\ pc' = "diffed"
    /\ UNCHANGED <<rendered, issue, chunks, text, hdr, nexts, located, parsed, normalized, current, baseline,
                   published, cachePdf, cacheMeta, snapshot, run>>

SpecDiff == InitDiff /\ [][DiffSummaries]_vars

-----------------------------------------------------------------------------
(* The pipeline: the published document, the download cache, the snapshot   *)
(* file, and the runs of the rates endpoint and of the two tools.  A run is *)
(* recorded with its outcome (ok or the exception that ended it), the       *)
(* exception's message and the log of its effects in order.                 *)

DEFAULT_SNAPSHOT_PATH == <<"s","n","a","p","s","h","o","t","s","/","r","e","s","i","d","e","n","t","i","a","l","_","v","1",".","j","s","o","n">>
MSG_SNAPSHOT_NOT_FOUND == <<"S","n","a","p","s","h","o","t"," ","f","i","l","e"," ","n","o","t"," ","f","o","u","n","d",":"," ">>
PDF_VERSION_LABEL == "CEMC_2025_Nov_v2"

RECURSIVE NatChars(_)
NatChars(n) ==
    IF n < 10 THEN <<DigitSeq[n + 1]>> ELSE NatChars(n \div 10) \o <<DigitSeq[(n % 10) + 1]>>

\* json.dumps of a number or None: the float's repr, in the range repr writes without
\* an exponent
JsonNumber(v) ==
    IF v = Null THEN <<"n","u","l","l">>
    ELSE NatChars(v.w) \o <<".">>
            \o (IF v.f = <<>> THEN <<"0">> ELSE [i \in 1..Len(v.f) |-> DigitSeq[v.f[i] + 1]])

\* json.load of such a token
JsonValue(s) == IF s = <<"n","u","l","l">> THEN Null ELSE ParseFloat(s)

\* The text update_snapshot writes for new_snapshot, token by token.
json_dumps(obj) ==
    [residential_standard |->
        [k \in DOMAIN obj.residential_standard |-> JsonNumber(obj.residential_standard[k])],
     residential_supplemental |->
        [k \in DOMAIN obj.residential_supplemental |-> JsonNumber(obj.residential_supplemental[k])],
     metadata |-> obj.metadata]

json_load(file) ==
    [residential_standard |->
        [k \in DOMAIN file.residential_standard |-> JsonValue(file.residential_standard[k])],
     residential_supplemental |->
        [k \in DOMAIN file.residential_supplemental |-> JsonValue(file.residential_supplemental[k])],
     metadata |-> file.metadata]

\* load_snapshot: the FileNotFoundError when no file is at the path
load_snapshot(file, path) ==
    IF file = NoFile
    THEN [raised |-> "FileNotFoundError", message |-> MSG_SNAPSHOT_NOT_FOUND \o path, value |-> <<>>]
    ELSE [raised |-> "none", message |-> <<>>, value |-> json_load(file)]

\* What the network gives a GET of PDF_URL: the document; a status raise_for_status
\* raises for (400 to 599); a final status outside 200 to 299 that it lets pass (a 3xx
\* without a Location to follow, such as 300 or 304), whose body is not the document;
\* or no answer
NetOutcomes == {"ok", "status", "unraised_status", "timeout"}
\* what text extraction is given when the file is not a PDF
NotPdf == <<"not a PDF">>

\* download_pdf: the cache files after the call, the exception it raised if any, and
\* its effects.  pdf and meta are the cache files before the call, served the
\* document behind PDF_URL.
\* download_pdf without the early return on a cached document
download_pdf_always_requests(force, pdf, meta, served, net, now) ==
    IF net = "timeout"
    THEN [raised |-> "RequestException", pdf |-> pdf, meta |-> meta, log |-> <<"GET">>]
    ELSE IF net = "status"
    THEN [raised |-> "HTTPError", pdf |-> pdf, meta |-> meta, log |-> <<"GET">>]
    ELSE [raised |-> "none",
          pdf |-> PdfFile(IF net = "unraised_status" THEN NotPdf ELSE served),
          meta |-> [fetched |-> now, source |-> "PDF_URL"],
          log |-> <<"GET", "write_pdf", "write_meta">>]

download_pdf(force, pdf, meta, served, net, now) ==
    IF pdf # NoFile /\ ~force
    THEN [raised |-> "none", pdf |-> pdf, meta |-> meta, log |-> <<>>]
    ELSE IF net = "timeout"
    THEN [raised |-> "RequestException", pdf |-> pdf, meta |-> meta, log |-> <<"GET">>]
    ELSE IF net = "status"
    THEN [raised |-> "HTTPError", pdf |-> pdf, meta |-> meta, log |-> <<"GET">>]
    ELSE [raised |-> "none",
          pdf |-> PdfFile(IF net = "unraised_status" THEN NotPdf ELSE served),
          meta |-> [fetched |-> now, source |-> "PDF_URL"],
          log |-> <<"GET", "write_pdf", "write_meta">>]

\* pdf_to_text of the file download_pdf returned: pdfplumber.open raises on a file that
\* is not a PDF
pdf_to_text(dl) ==
    IF dl.raised = "none" /\ dl.pdf.pages = NotPdf
    THEN [dl EXCEPT !.raised = "PDFSyntaxError"]
    ELSE dl

\* the subscripts update_snapshot's main evaluates, in order
SnapshotSubscripts ==
    <<<<"residential_standard", "customer_charge_usd_per_month">>,
      <<"residential_standard", "energy_rate_usd_per_kwh">>,
      <<"residential_standard", "tva_fuel_rate_usd_per_kwh">>,
      <<"residential_supplemental", "customer_charge_part_a_usd_per_month">>,
      <<"residential_supplemental", "customer_charge_part_b_usd_per_month">>,
      <<"residential_supplemental", "energy_rate_usd_per_kwh">>,
      <<"residential_supplemental", "tva_fuel_rate_usd_per_kwh">>>>

\* the subscripts that raise KeyError on p
MissingSubscripts(p) ==
    {i \in 1..Len(SnapshotSubscripts) :
        SnapshotSubscripts[i][2] \notin DOMAIN p[SnapshotSubscripts[i][1]]}

new_snapshot(p) ==
    LET rs == p["residential_standard"]
        srs == p["residential_supplemental"]
    IN  [residential_standard |->
           [customer_charge |-> rs["customer_charge_usd_per_month"],
            energy_rate |-> rs["energy_rate_usd_per_kwh"],
            tva_fuel_rate |-> rs["tva_fuel_rate_usd_per_kwh"]],
         residential_supplemental |->
           [part_a |-> srs["customer_charge_part_a_usd_per_month"],
            part_b |-> srs["customer_charge_part_b_usd_per_month"],
            energy_rate |-> srs["energy_rate_usd_per_kwh"],
            tva_fuel_rate |-> srs["tva_fuel_rate_usd_per_kwh"]],
         metadata |-> [pdf_version_label |-> PDF_VERSION_LABEL]]

\* update_snapshot's main once the document is parsed: it ends in the KeyError of the
\* first subscript that fails, or writes the snapshot.
write_snapshot(p, file) ==
    LET missing == MissingSubscripts(p)
    IN  IF missing # {}
        THEN [raised |-> "KeyError", message |-> <<SnapshotSubscripts[Min(missing)][2]>>,
              file |-> file, log |-> <<>>]
        ELSE [raised |-> "none", message |-> <<>>, file |-> json_dumps(new_snapshot(p)),
              log |-> <<"write_snapshot", "print_snapshot_updated">>]

\* What the issue tracker answers to the create-issue request: created, a status of
\* 300 or more, or no answer
PostOutcomes == {"created", "status", "timeout"}

\* open_github_issue posting again after a status of 300 or more
open_github_issue_retries(env, post) ==
    IF "GITHUB_REPOSITORY" \notin env
    THEN [raised |-> "RuntimeError", message |-> <<"GITHUB_REPOSITORY not set">>, log |-> <<>>]
    ELSE IF "GITHUB_TOKEN" \notin env
    THEN [raised |-> "RuntimeError", message |-> <<"GITHUB_TOKEN not set">>, log |-> <<>>]
    ELSE IF post = "timeout"
    THEN [raised |-> "RequestException", message |-> <<>>, log |-> <<"POST">>]
    ELSE IF post = "status"
    THEN [raised |-> "RuntimeError", message |-> <<"Failed to create issue.">>,
          log |-> <<"POST", "POST">>]
    ELSE [raised |-> "none", message |-> <<>>, log |-> <<"POST">>]

\* open_github_issue: env tells which of GITHUB_REPOSITORY and GITHUB_TOKEN are set
open_github_issue(env, post) ==
    IF "GITHUB_REPOSITORY" \notin env
    THEN [raised |-> "RuntimeError", message |-> <<"GITHUB_REPOSITORY not set">>, log |-> <<>>]
    ELSE IF "GITHUB_TOKEN" \notin env
    THEN [raised |-> "RuntimeError", message |-> <<"GITHUB_TOKEN not set">>, log |-> <<>>]
    ELSE IF post = "timeout"
    THEN [raised |-> "RequestException", message |-> <<>>, log |-> <<"POST">>]
    ELSE IF post = "status"
    THEN [raised |-> "RuntimeError", message |-> <<"Failed to create issue.">>,
          log |-> <<"POST">>]
    ELSE [raised |-> "none", message |-> <<>>, log |-> <<"POST">>]

Envs == {{}, {"GITHUB_REPOSITORY"}, {"GITHUB_REPOSITORY", "GITHUB_TOKEN"}}

\* The documents published behind PDF_URL: the rate sheet, the sheet with a new energy
\* rate, the sheet without the standard schedule, without the supplemental schedule,
\* and with schedules that state no charges.
PublishedDocs ==
  { SheetDoc,
    <<Header("RS"), Phrase("Customer", LIT.v39_00), Phrase("Energy", LIT.v0821),
      Phrase("TVA", LIT.v02177),
      Header("SRS"), Phrase("PartA", LIT.v28_00), Phrase("PartB", LIT.v40_54),
      Phrase("Energy", LIT.v08061), Phrase("TVA", LIT.v02177), Header("GP")>>,
    <<Header("SRS"), Phrase("PartA", LIT.v28_00), Phrase("PartB", LIT.v40_54),
      Phrase("Energy", LIT.v08061), Phrase("TVA", LIT.v02177), Header("GP")>>,
    <<Header("RS"), Phrase("Customer", LIT.v39_00), Phrase("Energy", LIT.v08058),
      Phrase("TVA", LIT.v02177), Header("GP")>>,
    <<Header("RS"), Header("SRS"), Header("GP")>> }
Published == {DocText(d) : d \in PublishedDocs}
\* parse_pdf of each of them
Parsed == [t \in Published |-> parse_pdf(t)]

\* the snapshot kept with the sources: the rates of the rate sheet
SnapshotRef ==
    json_dumps([residential_standard |-> StdRef, residential_supplemental |-> SupRef,
                metadata |-> [pdf_version_label |-> PDF_VERSION_LABEL]])
-----------------------------------------------------------------------------
(* Renderers.  A rendered text is a sequence of characters; the arrow of the *)
(* markdown bullets is the element "rarr", a grave accent is "btick", and    *)
(* the three characters the source of the issue title holds where a dash was *)
(* meant (U+00E2 U+20AC U+201C) are "acirc", "euro", "ldquo".                *)

\* the fixed texts of the renderers and of the issue
STR ==
    [no_changes |-> <<"N","o"," ","c","h","a","n","g","e","s"," ","d","e","t","e","c","t","e","d",".">>,
     md_intro |-> <<"T","h","e"," ","f","o","l","l","o","w","i","n","g"," ","r","a","t","e"," ","c","h","a","n","g","e","s"," ","w","e","r","e"," ","d","e","t","e","c","t","e","d",":","\n">>,
     md_heading |-> <<"#","#","#"," ">>,
     md_bullet |-> <<"-"," ","*","*">>,
     md_colon |-> <<"*","*",":"," ","btick">>,
     md_arrow |-> <<"btick"," ","rarr"," ","btick">>,
     md_tick |-> <<"btick">>,
     console_intro |-> <<"C","h","a","n","g","e","s"," ","d","e","t","e","c","t","e","d",":","\n">>,
     console_arrow |-> <<" ","-",">"," ">>,
     none |-> <<"N","o","n","e">>,
     issue_title |-> <<"C","E","M","C"," ","r","a","t","e"," ","c","h","a","n","g","e"," ","d","e","t","e","c","t","e","d"," ","acirc","euro","ldquo"," ">>,
     issue_intro |-> <<"A"," ","d","i","f","f","e","r","e","n","c","e"," ","b","e","t","w","e","e","n"," ","t","h","e"," ","c","u","r","r","e","n","t"," ","C","E","M","C"," ","r","a","t","e","s"," ","P","D","F"," ","a","n","d"," ","t","h","e"," ","s","t","o","r","e","d"," ","s","n","a","p","s","h","o","t"," ","h","a","s"," ","b","e","e","n"," ","d","e","t","e","c","t","e","d",".","\n">>,
     issue_summary |-> <<"#","#"," ","S","u","m","m","a","r","y"," ","o","f"," ","c","h","a","n","g","e","s","\n">>,
     issue_rule |-> <<"\n","-","-","-","\n">>,
     issue_snapshot |-> <<"S","n","a","p","s","h","o","t"," ","f","i","l","e",":"," ","btick">>]

\* the section and field names letter by letter
NameChars ==
    [residential_standard |-> <<"r","e","s","i","d","e","n","t","i","a","l","_","s","t","a","n","d","a","r","d">>,
     residential_supplemental |-> <<"r","e","s","i","d","e","n","t","i","a","l","_","s","u","p","p","l","e","m","e","n","t","a","l">>,
     customer_charge |-> <<"c","u","s","t","o","m","e","r","_","c","h","a","r","g","e">>,
     energy_rate |-> <<"e","n","e","r","g","y","_","r","a","t","e">>,
     part_a |-> <<"p","a","r","t","_","a">>,
     part_b |-> <<"p","a","r","t","_","b">>,
     tva_fuel_rate |-> <<"t","v","a","_","f","u","e","l","_","r","a","t","e">>]

\* str(value) in an f-string: None, or the float's repr
PyStr(v) == IF v = Null THEN STR.none ELSE JsonNumber(v)

\* the keys of by_section in insertion order: the sections in the order first seen
RECURSIVE by_section_keys(_, _)
by_section_keys(changeList, seen) ==
    IF changeList = <<>> THEN <<>>
    ELSE IF Head(changeList).section \in seen THEN by_section_keys(Tail(changeList), seen)
    ELSE <<Head(changeList).section>>
            \o by_section_keys(Tail(changeList), seen \cup {Head(changeList).section})

\* by_section[section]: the changes of the section, in input order
RECURSIVE by_section(_, _)
by_section(changeList, section) ==
    IF changeList = <<>> THEN <<>>
    ELSE (IF Head(changeList).section = section THEN <<Head(changeList)>> ELSE <<>>)
            \o by_section(Tail(changeList), section)

\* the bullet of one change: field in bold, old and new in code quotes (written "btick"),
\* with the arrow U+2192 (written "rarr") between them
MarkdownBullet(ch) ==
    STR.md_bullet \o NameChars[ch.field] \o STR.md_colon \o PyStr(ch.old) \o STR.md_arrow
        \o PyStr(ch.new) \o STR.md_tick

\* the lines the loop over by_section.items() appends
RECURSIVE MarkdownSections(_, _)
MarkdownSections(changeList, keys) ==
    IF keys = <<>> THEN <<>>
    ELSE LET section_changes == by_section(changeList, Head(keys))
         IN  <<STR.md_heading \o NameChars[Head(keys)], <<>>>>
                \o [i \in 1..Len(section_changes) |-> MarkdownBullet(section_changes[i])]
                \o <<<<>>>>
                \o MarkdownSections(changeList, Tail(keys))

\* the markdown renderer with by_section keyed by the position of the change
format_changes_markdown_ungrouped(changeList) ==
    IF changeList = <<>> THEN STR.no_changes
    ELSE Join(<<STR.md_intro>>
                \o MarkdownSections(changeList,
                                    [i \in 1..Len(changeList) |-> changeList[i].section]), NL)

\* the markdown renderer without the early return on an empty list
format_changes_markdown_empty_body(changeList) ==
    Join(<<STR.md_intro>> \o MarkdownSections(changeList, by_section_keys(changeList, {})), NL)

format_changes_markdown(changeList) ==
    IF changeList = <<>> THEN STR.no_changes
    ELSE Join(<<STR.md_intro>> \o MarkdownSections(changeList, by_section_keys(changeList, {})), NL)

\* f"[{ch.section}] {ch.field}: {ch.old} -> {ch.new}"
ConsoleLine(ch) ==
    <<"[">> \o NameChars[ch.section] \o <<"]", " ">> \o NameChars[ch.field] \o <<":", " ">>
        \o PyStr(ch.old) \o STR.console_arrow \o PyStr(ch.new)

\* the console renderer looping over by_section as the markdown renderer does
format_changes_console_grouped(changeList) ==
    LET keys == by_section_keys(changeList, {})
        grouped == [k \in 1..Len(keys) |-> by_section(changeList, keys[k])]
        flat == IF Len(keys) = 1 THEN grouped[1] ELSE grouped[1] \o grouped[2]
    IN  IF changeList = <<>> THEN STR.no_changes
        ELSE Join(<<STR.console_intro>> \o [i \in 1..Len(flat) |-> ConsoleLine(flat[i])], NL)

format_changes_console(changeList) ==
    IF changeList = <<>> THEN STR.no_changes
    ELSE Join(<<STR.console_intro>> \o [i \in 1..Len(changeList) |-> ConsoleLine(changeList[i])], NL)

\* the title and body main builds for the issue
issue_payload(changeList, now, snapshot_path) ==
    [title |-> STR.issue_title \o <<now>>,
     body |-> Join(<<STR.issue_intro, STR.issue_summary, format_changes_markdown(changeList),
                     STR.issue_rule, STR.issue_snapshot \o snapshot_path \o STR.md_tick>>, NL)]

-----------------------------------------------------------------------------
(* The renderers as pure functions: the change list is drawn from RenderInputs, *)
(* then each renderer is applied to it.                                         *)

MaxChanges == 3

\* FieldChange values of two sections: fields of each and values with and without None
RenderChanges ==
    {FieldChange(s, f, o, n) :
        s \in {"residential_standard"}, f \in {"energy_rate", "tva_fuel_rate"},
        o \in {Null, Flt(0, <<0, 8>>)}, n \in {Flt(0, <<0, 9>>)}}
    \cup
    {FieldChange(s, f, o, n) :
        s \in {"residential_supplemental"}, f \in {"energy_rate", "part_a"},
        o \in {Flt(28, <<>>)}, n \in {Null, Flt(29, <<5>>)}}

\* the lists of at most MaxChanges changes, in any order, interleaved sections included
RenderInputs == UNION {[1..n -> RenderChanges] : n \in 0..MaxChanges}

InitRender ==
    /\ InitPipelineIdle
    /\ chunks = <<>> /\ text = <<>>
    /\ hdr = "" /\ nexts = <<>> /\ located = NoneStr
    /\ parsed = NoDoc /\ normalized = NoDoc /\ current = <<>> /\ baseline = <<>>
    /\ changes \in RenderInputs
    /\ pc = "render"

RenderMarkdown ==
    /\ pc = "render" /\ rendered.markdown = NoneStr
    /\ rendered' = [rendered EXCEPT !.markdown = format_changes_markdown(changes)]
    /\ UNCHANGED <<issue, chunks, text, pc, hdr, nexts, located, parsed, normalized, current,
                   baseline, changes, published, cachePdf, cacheMeta, snapshot, run>>

RenderConsole ==
    /\ pc = "render" /\ rendered.console = NoneStr
    /\ rendered' = [rendered EXCEPT !.console = format_changes_console(changes)]
    /\ UNCHANGED <<issue, chunks, text, pc, hdr, nexts, located, parsed, normalized, current,
                   baseline, changes, published, cachePdf, cacheMeta, snapshot, run>>

NextRender == RenderMarkdown \/ RenderConsole
SpecRender == InitRender /\ [][NextRender]_vars
-----------------------------------------------------------------------------
(* The pipeline's specification.  text, parsed, normalized, current,        *)
(* baseline and changes are the values of the last run: a run leaves those  *)
(* it did not compute empty.                                                 *)

Run(op, outcome, message, log) == [op |-> op, outcome |-> outcome, message |-> message, log |-> log]

Init ==
    /\ published = DocText(SheetDoc)
    /\ cachePdf = NoFile /\ cacheMeta = NoFile
    /\ snapshot \in {NoFile, SnapshotRef}
    /\ run = Idle
    /\ rendered = NoRender /\ issue = NoIssue
    /\ chunks = <<>> /\ text = <<>>
    /\ pc = "pipeline"
    /\ hdr = "" /\ nexts = <<>> /\ located = NoneStr
    /\ parsed = NoDoc /\ normalized = NoDoc
    /\ current = <<>> /\ baseline = <<>> /\ changes = <<>>

\* the utility replaces the document behind PDF_URL
Publish ==
    /\ published' \in Published \ {published}
    /\ UNCHANGED <<rendered, issue, chunks, text, pc, hdr, nexts, located, parsed, normalized, current,
                   baseline, changes, cachePdf, cacheMeta, snapshot, run>>

\* a fresh working directory: CACHE_DIR is created empty
ClearCache ==
    /\ cachePdf # NoFile
    /\ cachePdf' = NoFile /\ cacheMeta' = NoFile
    /\ UNCHANGED <<rendered, issue, chunks, text, pc, hdr, nexts, located, parsed, normalized, current,
                   baseline, changes, published, snapshot, run>>

\* GET /rates/cemc/residential
GetRates ==
    \E force \in BOOLEAN, net \in NetOutcomes, now \in Instants :
        LET dl == pdf_to_text(download_pdf(force, cachePdf, cacheMeta, published, net, now))
        IN  /\ cachePdf' = dl.pdf /\ cacheMeta' = dl.meta
            /\ IF dl.raised # "none"
               THEN /\ run' = Run("get_cemc_residential", "HTTPException", <<dl.raised>>, dl.log)
                    /\ text' = <<>> /\ parsed' = NoDoc /\ normalized' = NoDoc
               ELSE /\ text' = dl.pdf.pages
                    /\ parsed' = Parsed[text']
                    /\ \E at \in Instants, tie \in {"down", "up"} :
                            normalized' = normalize(parsed', at, tie)
                    /\ run' = Run("get_cemc_residential", "ok", <<>>,
                                  dl.log \o <<"parse", "normalize">>)
            /\ current' = <<>> /\ baseline' = <<>> /\ changes' = <<>>
            /\ rendered' = NoRender /\ issue' = NoIssue
            /\ UNCHANGED <<chunks, pc, hdr, nexts, located, published, snapshot>>

\* tools/update_snapshot.py
UpdateSnapshot ==
    \E net \in NetOutcomes, now \in Instants :
        LET dl == pdf_to_text(download_pdf(FALSE, cachePdf, cacheMeta, published, net, now))
        IN  /\ cachePdf' = dl.pdf /\ cacheMeta' = dl.meta
            /\ IF dl.raised # "none"
               THEN /\ run' = Run("update_snapshot", dl.raised, <<>>, dl.log)
                    /\ text' = <<>> /\ parsed' = NoDoc
                    /\ UNCHANGED snapshot
               ELSE LET ws == write_snapshot(Parsed[dl.pdf.pages], snapshot)
                    IN  /\ text' = dl.pdf.pages
                        /\ parsed' = Parsed[text']
                        /\ snapshot' = ws.file
                        /\ run' = Run("update_snapshot",
                                      IF ws.raised = "none" THEN "ok" ELSE ws.raised,
                                      ws.message, dl.log \o <<"parse">> \o ws.log)
            /\ normalized' = NoDoc
            /\ current' = <<>> /\ baseline' = <<>> /\ changes' = <<>>
            /\ rendered' = NoRender /\ issue' = NoIssue
            /\ UNCHANGED <<chunks, pc, hdr, nexts, located, published>>

\* a job that, having found changes, takes the current summary as the new baseline
CheckRateChange_rebaselines ==
    /\ snapshot # NoFile
    /\ text' = published
    /\ parsed' = Parsed[text']
    /\ current' = extract_residential_summary(parsed')
    /\ baseline' = [s \in Sections |-> json_load(snapshot)[s]]
    /\ changes' = diff_summaries(current', baseline')
    /\ snapshot' = json_dumps([residential_standard |-> current'.residential_standard,
                               residential_supplemental |-> current'.residential_supplemental,
                               metadata |-> json_load(snapshot).metadata])
    /\ cachePdf' = PdfFile(published) /\ cacheMeta' = [fetched |-> "t0", source |-> "PDF_URL"]
    /\ run' = Run("check_rate_change", "ok", <<>>, <<"load_snapshot", "GET", "parse", "diff">>)
    /\ normalized' = NoDoc
    /\ rendered' = NoRender /\ issue' = NoIssue
    /\ UNCHANGED <<chunks, pc, hdr, nexts, located, published>>

\* tools/check_rate_change_and_open_issue.py
CheckRateChange ==
    \E net \in NetOutcomes, now \in Instants :
        LET ls == load_snapshot(snapshot, DEFAULT_SNAPSHOT_PATH)
            dl == pdf_to_text(download_pdf(TRUE, cachePdf, cacheMeta, published, net, now))
            begun == <<"print_using_snapshot", "load_snapshot">>
        IN  /\ normalized' = NoDoc
            /\ UNCHANGED <<chunks, pc, hdr, nexts, located, published, snapshot>>
            /\ IF ls.raised # "none"
               THEN /\ run' = Run("check_rate_change", ls.raised, ls.message, begun)
                    /\ text' = <<>> /\ parsed' = NoDoc
                    /\ current' = <<>> /\ baseline' = <<>> /\ changes' = <<>>
                    /\ rendered' = NoRender /\ issue' = NoIssue
                    /\ UNCHANGED <<cachePdf, cacheMeta>>
               ELSE /\ baseline' = [residential_standard |-> ls.value["residential_standard"],
                                    residential_supplemental |->
                                        ls.value["residential_supplemental"]]
                    /\ cachePdf' = dl.pdf /\ cacheMeta' = dl.meta
                    /\ IF dl.raised # "none"
                       THEN /\ run' = Run("check_rate_change", dl.raised, <<>>, begun \o dl.log)
                            /\ text' = <<>> /\ parsed' = NoDoc
                            /\ current' = <<>> /\ changes' = <<>>
                            /\ rendered' = NoRender /\ issue' = NoIssue
                       ELSE /\ text' = dl.pdf.pages
                            /\ parsed' = Parsed[text']
                            /\ current' = extract_residential_summary(parsed')
                            /\ changes' = diff_summaries(current', baseline')
                            /\ LET done == begun \o dl.log \o <<"parse", "diff">>
                               IN  IF changes' = <<>>
                                   THEN /\ run' = Run("check_rate_change", "ok", <<>>,
                                                      done \o <<"print_no_changes">>)
                                        /\ rendered' = NoRender /\ issue' = NoIssue
                                   ELSE \E at \in Instants, env \in Envs, post \in PostOutcomes :
                                        LET oi == open_github_issue(env, post)
                                            sent == \E i \in 1..Len(oi.log) : oi.log[i] = "POST"
                                        IN
                                        /\ rendered' = [markdown |-> format_changes_markdown(changes'),
                                                        console |-> NoneStr]
                                        /\ issue' = IF sent
                                                    THEN issue_payload(changes', at, DEFAULT_SNAPSHOT_PATH)
                                                    ELSE NoIssue
                                        /\ run' =
                                             IF oi.raised # "none"
                                             THEN Run("check_rate_change", oi.raised, oi.message,
                                                      done \o <<"render", "print_changes_detected">>
                                                           \o oi.log)
                                             ELSE Run("check_rate_change", "ok", <<>>,
                                                      done \o <<"render", "print_changes_detected">>
                                                           \o oi.log \o <<"print_issue_created">>)

Next == Publish \/ ClearCache \/ GetRates \/ UpdateSnapshot \/ CheckRateChange

Spec == Init /\ [][Next]_vars

\* The runs with the published document held fixed from a completed update-snapshot
\* until the next run of an entry point: the utility publishes only while the last run
\* is not a completed update-snapshot.
UpdateCompleted == run.op = "update_snapshot" /\ run.outcome = "ok"
PublishBeforeUpdate == ~UpdateCompleted /\ Publish
NextAccept ==
    PublishBeforeUpdate \/ ClearCache \/ GetRates \/ UpdateSnapshot \/ CheckRateChange
SpecAccept == Init /\ [][NextAccept]_vars
-----------------------------------------------------------------------------
(* Differ: properties *)

AllKeys == StdKeys \cup SupKeys
FieldOf(summary, s, f) == Get(GetOr(summary, s, <<>>), f)
ChangesFor(s, f) == {i \in 1..Len(changes) : changes[i].section = s /\ changes[i].field = f}

\* C1: diff(current, baseline) holds exactly one FieldChange for field f of section s
\* iff current[s][f] differs from baseline[s][f], a missing key and None being one and
\* the same value; the change carries old = the baseline value and new = the current
\* value, and there are no other entries.
C1_DiffFieldUnion ==
    pc = "diffed" =>
        /\ \A s \in Sections, f \in AllKeys :
              IF FieldOf(current, s, f) # FieldOf(baseline, s, f)
              THEN \E i \in 1..Len(changes) :
                      /\ ChangesFor(s, f) = {i}
                      /\ changes[i].old = FieldOf(baseline, s, f)
                      /\ changes[i].new = FieldOf(current, s, f)
              ELSE ChangesFor(s, f) = {}
        /\ \A i \in 1..Len(changes) :
              changes[i].section \in Sections /\ changes[i].field \in AllKeys

\* test_diff_detects_changes: only the energy rate moved, 0.08058 -> 0.0821
C1_Witness ==
    /\ pc = "diffed"
    /\ current = TestPair[1] /\ baseline = TestPair[2]
    /\ changes = <<FieldChange("residential_standard", "energy_rate",
                               Flt(0, <<0, 8, 0, 5, 8>>), Flt(0, <<0, 8, 2, 1>>))>>

\* C2: for every parsed document P, sections absent and fields None included,
\* diff(summarize(P), summarize(P)) is the empty sequence.
C2_SelfDiffEmpty ==
    (pc = "diffed" /\ parsed # NoDoc) =>
        /\ current = extract_residential_summary(parsed)
        /\ baseline = current
        /\ changes = <<>>

\* a document with a standard section lacking its energy rate and no supplemental section
C2_Witness ==
    /\ pc = "diffed" /\ parsed # NoDoc
    /\ parsed.residential_standard.is_present
    /\ parsed.residential_standard.energy_rate_usd_per_kwh = Null
    /\ parsed.residential_standard.customer_charge_usd_per_month # Null
    /\ ~parsed.residential_supplemental.is_present
    /\ changes = <<>>

-----------------------------------------------------------------------------
(* Section Locator and Rate Parser: properties *)

MatchesAt(t, name, i) == MatchFrom(t, PatternOf(name), i, 1) # <<>>
HeaderStarts(t, name) == {i \in 1..Len(t) : MatchesAt(t, name, i)}

\* The span the claims describe: from the first match of header to the nearest start,
\* strictly after it, of a match of one of the patterns named in ends; NoneStr when
\* the header matches nowhere.
SpanTo(t, header, ends) ==
    IF HeaderStarts(t, header) = {} THEN NoneStr
    ELSE LET h == Min(HeaderStarts(t, header))
             later == {j \in (h + 1)..Len(t) : \E e \in ends : MatchesAt(t, e, j)}
         IN  SubSeq(t, h, IF later = {} THEN Len(t) ELSE Min(later) - 1)

SectionKinds ==
    {"residential_standard", "residential_supplemental", "residential_seasonal", "residential_tou"}
HeaderOf(kind) ==
    CASE kind = "residential_standard" -> "RS"
      [] kind = "residential_supplemental" -> "SRS"
      [] kind = "residential_seasonal" -> "SEASONAL"
      [] kind = "residential_tou" -> "TOU"
NumericFields(kind) ==
    CASE kind = "residential_standard" ->
            {"customer_charge_usd_per_month", "energy_rate_usd_per_kwh", "tva_fuel_rate_usd_per_kwh"}
      [] kind = "residential_supplemental" ->
            {"customer_charge_part_a_usd_per_month", "customer_charge_part_b_usd_per_month",
             "energy_rate_usd_per_kwh", "tva_fuel_rate_usd_per_kwh"}
      [] kind = "residential_seasonal" -> {"summer_rate_usd_per_kwh", "winter_rate_usd_per_kwh"}
      [] kind = "residential_tou" ->
            {"on_peak_rate_usd_per_kwh", "off_peak_rate_usd_per_kwh", "shoulder_rate_usd_per_kwh"}

\* C3: a parsed section record has is_present = FALSE iff its header pattern matches
\* nowhere in the text; then raw_section is None and every numeric field of the
\* record is None.
C3_AbsentSectionRecord ==
    pc = "parsed" =>
        \A kind \in SectionKinds :
            LET rec == parsed[kind]
            IN  /\ rec.is_present = FALSE <=> HeaderStarts(text, HeaderOf(kind)) = {}
                /\ rec.is_present = FALSE =>
                      /\ rec.raw_section = NoneStr
                      /\ \A f \in NumericFields(kind) : f \in DOMAIN rec /\ rec[f] = Null

\* C4: when the header matches, _find_section returns the text from the first header
\* match to the smallest start of a next-header match found strictly after it, and to
\* the end of the text when the list is empty or nothing of it matches after the header.
C4_LocateSpan ==
    pc = "located" =>
        /\ located = SpanTo(text, hdr, {nexts[j] : j \in 1..Len(nexts)})
        /\ HeaderStarts(text, hdr) # {} => located # NoneStr

\* a section cut short by the nearer of two next headers, with text left after it
C4_Witness ==
    /\ pc = "located"
    /\ Len(nexts) = 2 /\ nexts[1] # nexts[2]
    /\ located # NoneStr
    /\ \E h \in 1..(Len(text) - Len(located)) :
          /\ MatchesAt(text, hdr, h)
          /\ located = SubSeq(text, h, h + Len(located) - 1)
          /\ MatchesAt(text, nexts[2], h + Len(located))

ClaimedEnds(kind) ==
    CASE kind = "residential_standard" -> {"SRS", "GP"}
      [] kind = "residential_supplemental" -> {"GP"}
      [] kind = "residential_seasonal" -> {"GP", "TOU"}
      [] kind = "residential_tou" -> {"GP"}

\* C5: in parse_pdf the standard section ends at the supplemental or the general-power
\* header, whichever comes first after its own header; the supplemental section at the
\* general-power header; the seasonal section at the general-power or the time-of-use
\* header, whichever comes first; the time-of-use section at the general-power header;
\* each runs to the end of the text when no such header follows.
C5_SectionEnds ==
    pc = "parsed" =>
        \A kind \in SectionKinds :
            parsed[kind].raw_section = SpanTo(text, HeaderOf(kind), ClaimedEnds(kind))

\* What parse_pdf does instead for the seasonal section: it ends at the first
\* "RESIDENTIAL TIME", schedule header or not.
CodeEnds(kind) ==
    IF kind = "residential_seasonal" THEN {"GP", "RES_TIME"} ELSE ClaimedEnds(kind)
C5_SectionEndsAsCoded ==
    pc = "parsed" =>
        \A kind \in SectionKinds :
            parsed[kind].raw_section = SpanTo(text, HeaderOf(kind), CodeEnds(kind))

\* The phrases of the document that lie in the section of a kind, by position: those
\* after the first header phrase of the kind and before the next phrase that is one
\* of the headers ending it.
PhraseEnds(kind) ==
    IF kind = "residential_standard" THEN {"SRS", "GP"} ELSE {"GP"}
SectionPhrases(kind) ==
    LET heads == {i \in 1..Len(chunks) : chunks[i].label = HeaderOf(kind)}
    IN  IF heads = {} THEN {}
        ELSE LET h == Min(heads)
                 stops == {j \in (h + 1)..Len(chunks) : chunks[j].label \in PhraseEnds(kind)}
             IN  (h + 1)..((IF stops = {} THEN Len(chunks) + 1 ELSE Min(stops)) - 1)

FieldsOf(kind) ==
    IF kind = "residential_standard"
    THEN {[key |-> "customer_charge_usd_per_month", label |-> "Customer", fp |-> PAT_CUSTOMER],
          [key |-> "energy_rate_usd_per_kwh", label |-> "Energy", fp |-> PAT_ENERGY],
          [key |-> "tva_fuel_rate_usd_per_kwh", label |-> "TVA", fp |-> PAT_TVA]}
    ELSE {[key |-> "customer_charge_part_a_usd_per_month", label |-> "PartA", fp |-> PAT_PART_A],
          [key |-> "customer_charge_part_b_usd_per_month", label |-> "PartB", fp |-> PAT_PART_B],
          [key |-> "energy_rate_usd_per_kwh", label |-> "Energy", fp |-> PAT_ENERGY],
          [key |-> "tva_fuel_rate_usd_per_kwh", label |-> "TVA", fp |-> PAT_TVA]}

\* The literal group 1 of a field pattern takes from the head of lit, or <<>>.
GroupAtoms(fp) == SubSeq(fp.pat, fp.g1, fp.g2)
Taken(fp, lit) ==
    LET m == MatchFrom(lit, GroupAtoms(fp), 1, 1)
    IN  IF m = <<>> THEN <<>> ELSE SubSeq(lit, 1, MEnd(m) - 1)

\* What a field is expected to hold, told from the phrases of its own label alone: the
\* conversion of the literal of the first such phrase of the section whose literal the
\* pattern accepts, None when there is none.
OwnValue(kind, fld) ==
    LET own == {i \in SectionPhrases(kind) :
                   chunks[i].label = fld.label /\ Taken(fld.fp, chunks[i].lit) # <<>>}
    IN  IF own = {} THEN Null ELSE _clean_float(Taken(fld.fp, chunks[Min(own)].lit))

\* C6: in a located standard or supplemental section each numeric field is extracted
\* independently of its siblings: it is None exactly when its own label pattern matches
\* nowhere or its matched literal fails conversion, and otherwise holds the value of
\* its own phrase whatever the other fields are; with no field matched the record has
\* is_present = TRUE, raw_section populated and every field None.
C6_FieldsIndependent ==
    pc = "parsed" =>
        \A kind \in {"residential_standard", "residential_supplemental"} :
            LET rec == parsed[kind]
            IN  rec.is_present =>
                   /\ rec.raw_section # NoneStr /\ rec.raw_section # <<>>
                   /\ \A fld \in FieldsOf(kind) :
                         /\ fld.key \in DOMAIN rec
                         /\ rec[fld.key] = OwnValue(kind, fld)

\* a standard section whose customer charge is missing and whose energy literal fails
\* conversion, with the fuel rate read all the same
C6_Witness ==
    /\ pc = "parsed"
    /\ parsed.residential_standard.is_present
    /\ \E i, j \in SectionPhrases("residential_standard") :
          /\ chunks[i] = Phrase("Energy", LIT.v1_2_3)
          /\ chunks[j] = Phrase("TVA", LIT.v39_00)
    /\ parsed.residential_standard.customer_charge_usd_per_month = Null
    /\ parsed.residential_standard.energy_rate_usd_per_kwh = Null
    /\ parsed.residential_standard.tva_fuel_rate_usd_per_kwh = Flt(39, <<>>)

\* a located section in which no field matches
C6_WitnessNoField ==
    /\ pc = "parsed"
    /\ chunks = <<Header("SRS")>>
    /\ parsed.residential_supplemental.is_present
    /\ parsed.residential_supplemental.raw_section = TXT.SRS
    /\ \A fld \in FieldsOf("residential_supplemental") :
          parsed.residential_supplemental[fld.key] = Null

\* A numeric literal as the claim describes it: digits, optionally comma-grouped, with
\* an optional decimal part, or a bare decimal point followed by digits.
WellFormed(lit) ==
    /\ lit # <<>>
    /\ \A i \in 1..Len(lit) : lit[i] \in Digits \cup {",", "."}
    /\ Cardinality({i \in 1..Len(lit) : lit[i] = "."}) <= 1
    /\ lit[1] # ","
    /\ lit[Len(lit)] \in Digits
    /\ \A i, j \in 1..Len(lit) : (lit[i] = "." /\ lit[j] = ",") => j < i

IsNotComma(c) == c # ","
RECURSIVE SumDigits(_, _, _)
\* digits s[lo..hi] read as a whole number
SumDigits(s, lo, hi) ==
    IF hi < lo THEN 0 ELSE DigitVal(s[hi]) + 10 * SumDigits(s, lo, hi - 1)
\* The decimal number a well-formed literal denotes once its commas are dropped.
Denoted(lit) ==
    LET s == SelectSeq(lit, IsNotComma)
        dots == {i \in 1..Len(s) : s[i] = "."}
        d == IF dots = {} THEN Len(s) + 1 ELSE Min(dots)
    IN  [w |-> SumDigits(s, 1, d - 1),
         f |-> TrimZeros([i \in 1..(Len(s) - d) |-> DigitVal(s[d + i])])]

\* C7: a label followed by an optional currency symbol and a well-formed numeric
\* literal yields the decimal number the literal denotes after its commas are removed
\* and a zero is put before a bare decimal point; the rate sheet of the tests yields
\* 39.0, 0.08058 and 0.02177.
C7_LiteralValue ==
    pc = "parsed" =>
        /\ \A kind \in {"residential_standard", "residential_supplemental"} :
              \A fld \in FieldsOf(kind) :
                 LET own == {i \in SectionPhrases(kind) : chunks[i].label = fld.label}
                 IN  (own # {} /\ WellFormed(chunks[Min(own)].lit)) =>
                        parsed[kind][fld.key] = Denoted(chunks[Min(own)].lit)
        /\ chunks = SheetDoc =>
              /\ parsed.residential_standard.customer_charge_usd_per_month = Flt(39, <<>>)
              /\ parsed.residential_standard.energy_rate_usd_per_kwh = Flt(0, <<0, 8, 0, 5, 8>>)
              /\ parsed.residential_standard.tva_fuel_rate_usd_per_kwh = Flt(0, <<0, 2, 1, 7, 7>>)

\* the comma-grouped literal 1,234.5 read as 1234.5
C7_Witness ==
    /\ pc = "parsed"
    /\ chunks = <<Header("RS"), Phrase("Customer", LIT.v1_234_5)>>
    /\ parsed.residential_standard.customer_charge_usd_per_month = Flt(1234, <<5>>)

-----------------------------------------------------------------------------
(* Normalizer: properties *)

AbsInt(x) == IF x < 0 THEN -x ELSE x
\* the fraction of v in units of 10^-n, n at least its number of digits
FracUnits(v, n) == DigitsToInt(v.f) * Pow10(n - Len(v.f))
Longer(a, b) == IF Len(a.f) >= Len(b.f) THEN Len(a.f) ELSE Len(b.f)
\* |a - b| in units of 10^-Longer(a, b), for a and b less than two apart
AbsDiffUnits(a, b) ==
    AbsInt((a.w - b.w) * Pow10(Longer(a, b)) + FracUnits(a, Longer(a, b)) - FracUnits(b, Longer(a, b)))
Near(a, b) == AbsInt(a.w - b.w) <= 1
\* |a - b| < 10^-e
DiffBelowPow(a, b, e) ==
    /\ Near(a, b)
    /\ IF Longer(a, b) <= e THEN AbsDiffUnits(a, b) = 0
       ELSE AbsDiffUnits(a, b) < Pow10(Longer(a, b) - e)
\* |a - b| <= 5 * 10^-e
DiffWithinHalf(a, b, e) ==
    /\ Near(a, b)
    /\ IF Longer(a, b) >= e THEN AbsDiffUnits(a, b) <= 5 * Pow10(Longer(a, b) - e)
       ELSE AbsDiffUnits(a, b) * Pow10(e - Longer(a, b)) <= 5

\* cents is usd * 100 rounded to five decimal places
IsRounded(cents, usd) ==
    /\ Len(cents.f) <= CentsDigits
    /\ DiffWithinHalf(cents, Times100(usd), CentsDigits + 1)

CentsPairs ==
    {<<s, "energy_rate_usd_per_kwh", "energy_rate_cents_per_kwh">> : s \in Sections}
        \cup {<<s, "tva_fuel_rate_usd_per_kwh", "tva_fuel_rate_cents_per_kwh">> : s \in Sections}

\* C8 as stated: every cents field is None iff its dollar field is None, and otherwise
\* equals usd * 100 rounded to five decimal places and lies within 1e-9 of usd * 100,
\* for every value the parser can produce.
C8_CentsWithinNano ==
    pc = "normalized" =>
        \A p \in CentsPairs :
            LET usd == normalized.rates[p[1]][p[2]]
                cents == normalized.rates[p[1]][p[3]]
            IN  /\ cents = Null <=> usd = Null
                /\ usd # Null =>
                      /\ IsRounded(cents, usd)
                      /\ DiffBelowPow(cents, Times100(usd), 9)

\* C8 as amended: every cents field is None iff its dollar field is None, and otherwise
\* equals usd * 100 rounded to five decimal places: it has at most five decimal places
\* and lies within half a unit of the fifth place, 0.000005, of usd * 100.
C8_CentsRounded ==
    pc = "normalized" =>
        \A p \in CentsPairs :
            LET usd == normalized.rates[p[1]][p[2]]
                cents == normalized.rates[p[1]][p[3]]
            IN  /\ cents = Null <=> usd = Null
                /\ usd # Null => IsRounded(cents, usd)

\* 0.00000001 dollars: one millionth of a cent, rounded away to 0.0 cents
C8_Witness ==
    /\ pc = "normalized"
    /\ normalized.rates.residential_standard.energy_rate_usd_per_kwh = Flt(0, <<0, 0, 0, 0, 0, 0, 0, 1>>)
    /\ normalized.rates.residential_standard.energy_rate_cents_per_kwh = Flt(0, <<>>)
    /\ normalized.rates.residential_supplemental.energy_rate_cents_per_kwh = Null

\* the rate sheet of the tests: 0.08058 dollars are 8.058 cents
C8_WitnessSheet ==
    /\ pc = "normalized"
    /\ chunks = SheetDoc
    /\ normalized.rates.residential_standard.energy_rate_cents_per_kwh = Flt(8, <<0, 5, 8>>)
    /\ normalized.rates.residential_supplemental.tva_fuel_rate_cents_per_kwh = Flt(2, <<1, 7, 7>>)

-----------------------------------------------------------------------------
(* Claims about the tools. *)

Logged(event) == \E i \in 1..Len(run.log) : run.log[i] = event
RetrievalErrors == {"HTTPError", "RequestException"}
\* the errors of a run that did not get the document: retrieval failed, or the file
\* retrieved is not a PDF
DocumentErrors == RetrievalErrors \cup {"PDFSyntaxError"}

\* C9: no entry point raises because of missing content: a run that got the document
\* never ends in a KeyError, and update-snapshot then completes and writes a snapshot
\* that holds, for each field of the standard and supplemental sections, the value the
\* parse found or null.
C9_MissingDataNeverRaises ==
    /\ run.outcome # "KeyError"
    /\ (run.op = "update_snapshot" /\ run.outcome \notin DocumentErrors) =>
          /\ run.outcome = "ok"
          /\ snapshot # NoFile
          /\ LET written == json_load(snapshot)
                 found == extract_residential_summary(parsed)
             IN  \A s \in Sections : written[s] = found[s]

\* What update-snapshot does instead when a schedule is missing: it ends in the KeyError
\* of the first field of the missing section and leaves the snapshot as it was.
C9_KeyErrorOnMissingSection ==
    [][(run'.op = "update_snapshot" /\ run'.outcome \notin DocumentErrors) =>
          IF \A s \in Sections : parsed'[s].is_present
          THEN run'.outcome = "ok"
          ELSE run'.outcome = "KeyError" /\ snapshot' = snapshot]_vars

Contains(s, sub) ==
    \E i \in 1..(Len(s) - Len(sub) + 1) : SubSeq(s, i, i + Len(sub) - 1) = sub

\* a message that tells how to generate a snapshot names the tool that does, or says
\* to generate one
TellsHowToGenerate(message) ==
    \/ Contains(message, <<"u","p","d","a","t","e","_","s","n","a","p","s","h","o","t">>)
    \/ Contains(message, <<"g","e","n","e","r","a","t","e">>)

\* The run of the job that found no snapshot file.  The job leaves the snapshot alone
\* and the record of a run lasts until the next run, so the file is absent in the state
\* exactly when it was for the run.
MissingSnapshotRun == run.op = "check_rate_change" /\ snapshot = NoFile

\* C10: when the snapshot file is absent the diff-against-snapshot job ends in an error,
\* reports no "no changes", fetches and parses nothing, sends no create-issue request,
\* and its error message tells how to generate a snapshot.
C10_MissingSnapshotError ==
    MissingSnapshotRun =>
        /\ run.outcome # "ok"
        /\ ~Logged("print_no_changes")
        /\ ~Logged("GET") /\ ~Logged("parse")
        /\ ~Logged("POST")
        /\ TellsHowToGenerate(run.message)

\* The part of C10 the code keeps: the run is fatal and without effects, and the message
\* is the path after "Snapshot file not found: ".
C10_MissingSnapshotFatal ==
    MissingSnapshotRun =>
        /\ run.outcome = "FileNotFoundError"
        /\ run.log = <<"print_using_snapshot", "load_snapshot">>
        /\ run.message = MSG_SNAPSHOT_NOT_FOUND \o DEFAULT_SNAPSHOT_PATH
-----------------------------------------------------------------------------
(* Claims about the snapshot, the summary, the normalizer and the renderers. *)

\* C11: the snapshot file changes only in a step of update-snapshot that completed;
\* the endpoint, the diff-against-snapshot job (whatever it found or posted), a new
\* publication and a cleared cache leave its content as it was.
C11_SnapshotOnlyByUpdate ==
    [][snapshot' # snapshot => (run'.op = "update_snapshot" /\ run'.outcome = "ok")]_vars

\* the job found changes against the snapshot of the sources, opened an issue, and the
\* snapshot is still that of the sources
C11_Witness ==
    /\ run.op = "check_rate_change" /\ run.outcome = "ok"
    /\ changes # <<>>
    /\ Logged("POST")
    /\ snapshot = SnapshotRef

\* the parsed field each summary key stands for
ParsedFieldOf(section, key) ==
    CASE key = "customer_charge" -> "customer_charge_usd_per_month"
      [] key = "part_a" -> "customer_charge_part_a_usd_per_month"
      [] key = "part_b" -> "customer_charge_part_b_usd_per_month"
      [] key = "energy_rate" -> "energy_rate_usd_per_kwh"
      [] key = "tva_fuel_rate" -> "tva_fuel_rate_usd_per_kwh"
SummaryKeys(section) ==
    IF section = "residential_standard" THEN {"customer_charge", "energy_rate", "tva_fuel_rate"}
    ELSE {"part_a", "part_b", "energy_rate", "tva_fuel_rate"}

\* C12: the summary of a parsed document has exactly the sections residential_standard
\* and residential_supplemental, with exactly the keys customer_charge, energy_rate,
\* tva_fuel_rate and part_a, part_b, energy_rate, tva_fuel_rate; each key holds the
\* value of the parsed field of the same section it stands for, and null when the
\* parsed record has no such field.
C12_SummaryProjection ==
    pc = "diffed" =>
        /\ DOMAIN current = {"residential_standard", "residential_supplemental"}
        /\ \A s \in DOMAIN current :
              /\ DOMAIN current[s] = SummaryKeys(s)
              /\ \A k \in SummaryKeys(s) :
                    current[s][k] =
                        IF ParsedFieldOf(s, k) \in DOMAIN parsed[s]
                        THEN parsed[s][ParsedFieldOf(s, k)]
                        ELSE Null

\* the sheet of the tests: the two energy rates differ and each is summarized from its
\* own section
C12_Witness ==
    /\ pc = "diffed"
    /\ chunks = SheetDoc
    /\ current.residential_standard.energy_rate = Flt(0, <<0, 8, 0, 5, 8>>)
    /\ current.residential_supplemental.energy_rate = Flt(0, <<0, 8, 0, 6, 1>>)
    /\ current.residential_supplemental.part_b = Flt(40, <<5, 4>>)

\* a document without the standard schedule: the record has no numeric field and the
\* summary holds null for each
C12_WitnessNoField ==
    /\ pc = "diffed"
    /\ "energy_rate_usd_per_kwh" \notin DOMAIN parsed.residential_standard
    /\ current.residential_standard.energy_rate = Null
    /\ current.residential_supplemental.part_a # Null

\* the dollar-denominated field of the normalized record that each parsed field becomes
DollarFields(section) ==
    IF section = "residential_standard"
    THEN {<<"customer_charge_monthly_usd", "customer_charge_usd_per_month">>,
          <<"energy_rate_usd_per_kwh", "energy_rate_usd_per_kwh">>,
          <<"tva_fuel_rate_usd_per_kwh", "tva_fuel_rate_usd_per_kwh">>}
    ELSE {<<"customer_charge_part_a_monthly_usd", "customer_charge_part_a_usd_per_month">>,
          <<"customer_charge_part_b_monthly_usd", "customer_charge_part_b_usd_per_month">>,
          <<"energy_rate_usd_per_kwh", "energy_rate_usd_per_kwh">>,
          <<"tva_fuel_rate_usd_per_kwh", "tva_fuel_rate_usd_per_kwh">>}

\* C13: in the normalized record the standard and supplemental sections carry the
\* parsed record's is_present and raw_section and, in each dollar-denominated field,
\* the value of the parsed field (None where the parsed record holds None or has no
\* such field); the seasonal and time-of-use records are those of the parsed document;
\* the parsed document is what parse_pdf returned.
C13_NormalizePreserves ==
    pc = "normalized" =>
        /\ \A s \in {"residential_standard", "residential_supplemental"} :
              LET n == normalized.rates[s]
                  p == parsed[s]
              IN  /\ n.is_present = p.is_present
                  /\ n.raw_section = p.raw_section
                  /\ \A d \in DollarFields(s) :
                        n[d[1]] = IF d[2] \in DOMAIN p THEN p[d[2]] ELSE Null
        /\ normalized.rates.residential_seasonal = parsed.residential_seasonal
        /\ normalized.rates.residential_tou = parsed.residential_tou
        /\ parsed = parse_pdf(text)

\* the sheet of the tests normalized: its two parts of the supplemental customer charge
\* are kept apart and the raw section is carried over
C13_Witness ==
    /\ pc = "normalized"
    /\ chunks = SheetDoc
    /\ normalized.rates.residential_standard.customer_charge_monthly_usd = Flt(39, <<>>)
    /\ normalized.rates.residential_supplemental.customer_charge_part_a_monthly_usd = Flt(28, <<>>)
    /\ normalized.rates.residential_supplemental.customer_charge_part_b_monthly_usd = Flt(40, <<5, 4>>)
    /\ normalized.rates.residential_supplemental.raw_section = srs_section(text)
    /\ normalized.rates.residential_supplemental.raw_section # NoneStr

\* the sub-fields of the placeholder records, all None
SeasonalPlaceholder ==
    [summer_rate_usd_per_kwh |-> Null, winter_rate_usd_per_kwh |-> Null,
     summer_months |-> NoneStr, winter_months |-> NoneStr]
TouPlaceholder ==
    [on_peak_rate_usd_per_kwh |-> Null, off_peak_rate_usd_per_kwh |-> Null,
     shoulder_rate_usd_per_kwh |-> Null,
     on_peak_hours |-> NoneStr, off_peak_hours |-> NoneStr, shoulder_hours |-> NoneStr]
Without(rec, keys) == [k \in DOMAIN rec \ keys |-> rec[k]]

\* C14: the seasonal and time-of-use records hold None in every rate, month and hour
\* sub-field whether or not the header is found; beyond these sub-fields a record has
\* only is_present and raw_section, which tell the found case (TRUE, the section) from
\* the other (FALSE, None).
C14_PlaceholderSections ==
    pc = "parsed" =>
        /\ Without(parsed.residential_seasonal, {"is_present", "raw_section"}) = SeasonalPlaceholder
        /\ Without(parsed.residential_tou, {"is_present", "raw_section"}) = TouPlaceholder
        /\ \A kind \in {"residential_seasonal", "residential_tou"} :
              /\ {"is_present", "raw_section"} \subseteq DOMAIN parsed[kind]
              /\ parsed[kind].is_present <=> HeaderStarts(text, HeaderOf(kind)) # {}
              /\ parsed[kind].is_present <=> parsed[kind].raw_section # NoneStr

\* a seasonal schedule is found, it states an energy charge, and its rates are None
C14_Witness ==
    /\ pc = "parsed"
    /\ parsed.residential_seasonal.is_present
    /\ Search(parsed.residential_seasonal.raw_section, PAT_ENERGY.pat, 1) # <<>>
    /\ parsed.residential_seasonal.summer_rate_usd_per_kwh = Null

\* the order of the characters of a field name: the underscore comes before every
\* lower-case letter
CharRank(c) == IF c = "_" THEN 0 ELSE CHOOSE i \in 1..26 : LowerCase[i] = c
\* a comes strictly before b in lexicographic order
LexLess(a, b) ==
    \E n \in 0..Len(a) :
        /\ n <= Len(b)
        /\ \A i \in 1..n : a[i] = b[i]
        /\ \/ n = Len(a) /\ n < Len(b)
           \/ n < Len(a) /\ n < Len(b) /\ CharRank(a[n + 1]) < CharRank(b[n + 1])

\* C15: in the sequence diff_summaries returns every residential_standard change comes
\* before every residential_supplemental change, and within a section the changes come
\* in strictly ascending lexicographic order of field name, whatever the summaries.
C15_DiffOrdered ==
    pc = "diffed" =>
        \A i, j \in 1..Len(changes) :
            i < j =>
                \/ /\ changes[i].section = "residential_standard"
                   /\ changes[j].section = "residential_supplemental"
                \/ /\ changes[i].section = changes[j].section
                   /\ LexLess(NameChars[changes[i].field], NameChars[changes[j].field])

\* tva_fuel_rate of the standard section comes before energy_rate and part_a of the
\* supplemental section, which come in this order
C15_Witness ==
    /\ pc = "diffed"
    /\ \E i \in 1..Len(changes) :
          /\ i + 2 <= Len(changes)
          /\ changes[i].section = "residential_standard" /\ changes[i].field = "tva_fuel_rate"
          /\ changes[i + 1].section = "residential_supplemental" /\ changes[i + 1].field = "energy_rate"
          /\ changes[i + 2].section = "residential_supplemental" /\ changes[i + 2].field = "part_a"

-----------------------------------------------------------------------------
(* Claims about the renderers. *)

\* the lines of a rendered text: the pieces between its line feeds
LineBreaks(t) == {0} \cup {i \in 1..Len(t) : t[i] = "\n"} \cup {Len(t) + 1}
BreakAt(t, k) == CHOOSE b \in LineBreaks(t) : Cardinality({c \in LineBreaks(t) : c < b}) = k - 1
LinesOf(t) ==
    [k \in 1..(Cardinality(LineBreaks(t)) - 1) |->
        SubSeq(t, BreakAt(t, k) + 1, BreakAt(t, k + 1) - 1)]
StartsWith(s, prefix) == Len(s) >= Len(prefix) /\ SubSeq(s, 1, Len(prefix)) = prefix

\* the subsequence of the elements at the positions in idx, in order
RECURSIVE Pick(_, _, _)
Pick(s, idx, i) ==
    IF i > Len(s) THEN <<>>
    ELSE (IF i \in idx THEN <<s[i]>> ELSE <<>>) \o Pick(s, idx, i + 1)

\* the distinct sections of a change list in first-seen order, and the changes of one
\* section in input order
FirstSeen(cl) ==
    Pick([i \in 1..Len(cl) |-> cl[i].section],
         {i \in 1..Len(cl) : \A j \in 1..(i - 1) : cl[j].section # cl[i].section}, 1)
ChangesOf(cl, section) == Pick(cl, {i \in 1..Len(cl) : cl[i].section = section}, 1)

MarkdownRendered == rendered.markdown # NoneStr
ConsoleRendered == rendered.console # NoneStr
Interleaved(cl) ==
    \E i, j, k \in 1..Len(cl) :
        i < j /\ j < k /\ cl[i].section = cl[k].section /\ cl[j].section # cl[i].section

\* C16 as stated: on the empty change list each renderer returns a non-empty text, and
\* the texts of the two renderers differ.
C16_SentinelsDistinct ==
    (changes = <<>> /\ MarkdownRendered /\ ConsoleRendered)
        => /\ rendered.markdown # <<>> /\ rendered.console # <<>>
           /\ rendered.markdown # rendered.console

\* C16: on the empty change list each renderer returns the fixed non-empty sentence
\* "No changes detected.", never an empty body, and the two renderers return the same
\* sentence; no non-empty change list renders to that sentence.
C16_SentinelFixed ==
    LET sentinel == <<"N","o"," ","c","h","a","n","g","e","s"," ",
                      "d","e","t","e","c","t","e","d",".">>
    IN  /\ MarkdownRendered => (changes = <<>> <=> rendered.markdown = sentinel)
        /\ ConsoleRendered => (changes = <<>> <=> rendered.console = sentinel)
        /\ (MarkdownRendered /\ ConsoleRendered /\ changes = <<>>)
               => rendered.markdown = rendered.console
C16_Witness ==
    changes = <<>> /\ MarkdownRendered /\ ConsoleRendered /\ rendered.markdown # <<>>

\* the heading lines of a markdown text, and the bullets between the k-th heading and
\* the next one
HeadingPrefix == <<"#","#","#"," ">>
BulletPrefix == <<"-"," ">>
HeadingAt(lines) == {i \in 1..Len(lines) : StartsWith(lines[i], HeadingPrefix)}
Headings(lines) == Pick(lines, HeadingAt(lines), 1)
BulletsUnder(lines, k) ==
    LET from == CHOOSE i \in HeadingAt(lines) :
                    Cardinality({j \in HeadingAt(lines) : j < i}) = k - 1
        later == {i \in HeadingAt(lines) : i > from}
        upto == IF later = {} THEN Len(lines) + 1 ELSE Min(later)
    IN  Pick(lines, {i \in (from + 1)..(upto - 1) : StartsWith(lines[i], BulletPrefix)}, 1)
\* a bullet shows a change: its field in bold first, then the old value, then the new one
BulletShows(bullet, ch) ==
    /\ StartsWith(bullet, <<"-"," ","*","*">> \o NameChars[ch.field] \o <<"*","*">>)
    /\ Contains(bullet, <<"btick">> \o PyStr(ch.old) \o <<"btick", " ", "rarr", " ", "btick">>
                            \o PyStr(ch.new) \o <<"btick">>)

\* C17: for every non-empty change list, interleaved sections included, the markdown
\* text has exactly one heading per distinct section, the headings in first-seen order,
\* and under each heading one bullet per change of that section in input order; no
\* bullet stands outside a heading.
C17_MarkdownGrouped ==
    (MarkdownRendered /\ changes # <<>>) =>
        LET lines == LinesOf(rendered.markdown)
            sections == FirstSeen(changes)
        IN  /\ Headings(lines) = [k \in 1..Len(sections) |-> HeadingPrefix \o NameChars[sections[k]]]
            /\ \A k \in 1..Len(sections) :
                  LET bullets == BulletsUnder(lines, k)
                      mine == ChangesOf(changes, sections[k])
                  IN  /\ Len(bullets) = Len(mine)
                      /\ \A j \in 1..Len(mine) : BulletShows(bullets[j], mine[j])
            /\ Cardinality({i \in 1..Len(lines) : StartsWith(lines[i], BulletPrefix)}) = Len(changes)
C17_Witness ==
    /\ MarkdownRendered /\ Interleaved(changes)
    /\ Len(Headings(LinesOf(rendered.markdown))) = 2
    /\ Len(BulletsUnder(LinesOf(rendered.markdown), 1)) = 2

\* the lines of a console text after its heading line and the empty line that follows
ConsoleLines(t) == LET lines == LinesOf(t) IN SubSeq(lines, 3, Len(lines))
SectionTag(section) == <<"[">> \o NameChars[section] \o <<"]">>
SectionOfLine(line) ==
    IF StartsWith(line, SectionTag("residential_standard")) THEN "residential_standard"
    ELSE IF StartsWith(line, SectionTag("residential_supplemental")) THEN "residential_supplemental"
    ELSE "none"
LineShows(line, ch) ==
    /\ StartsWith(line, SectionTag(ch.section) \o <<" ">> \o NameChars[ch.field] \o <<":">>)
    /\ Contains(line, <<" ">> \o PyStr(ch.old) \o <<" ","-",">"," ">> \o PyStr(ch.new))

\* C18 as stated: for every non-empty change list the console text groups the changes
\* by section: the lines of one section are contiguous, the sections in first-seen
\* order, and each change is shown on a line.
C18_ConsoleGrouped ==
    (ConsoleRendered /\ changes # <<>>) =>
        LET lines == ConsoleLines(rendered.console)
        IN  /\ Len(lines) = Len(changes)
            /\ \A i, j, k \in 1..Len(lines) :
                  (i < j /\ j < k /\ SectionOfLine(lines[i]) = SectionOfLine(lines[k]))
                      => SectionOfLine(lines[j]) = SectionOfLine(lines[i])
            /\ \A c \in 1..Len(changes) : \E i \in 1..Len(lines) : LineShows(lines[i], changes[c])

\* C18: for every non-empty change list the console text has, after its heading line,
\* one line per change in input order, the i-th line showing the section, field, old
\* and new value of the i-th change; the lines of a section are contiguous only when
\* its changes are contiguous in the input.
C18_ConsoleInputOrder ==
    (ConsoleRendered /\ changes # <<>>) =>
        LET all == LinesOf(rendered.console)
            lines == ConsoleLines(rendered.console)
        IN  /\ all[1] = <<"C","h","a","n","g","e","s"," ","d","e","t","e","c","t","e","d",":">>
            /\ Len(lines) = Len(changes)
            /\ \A i \in 1..Len(lines) :
                  /\ LineShows(lines[i], changes[i])
                  /\ SectionOfLine(lines[i]) = changes[i].section
C18_Witness ==
    /\ ConsoleRendered /\ Interleaved(changes)
    /\ SectionOfLine(ConsoleLines(rendered.console)[2])
           # SectionOfLine(ConsoleLines(rendered.console)[1])
    /\ SectionOfLine(ConsoleLines(rendered.console)[3])
           = SectionOfLine(ConsoleLines(rendered.console)[1])

-----------------------------------------------------------------------------
(* Claims about the download cache and the snapshot's acceptance. *)

HasEvent(log, event) == \E i \in 1..Len(log) : log[i] = event
Precedes(log, a, b) == \E i, j \in 1..Len(log) : i < j /\ log[i] = a /\ log[j] = b
Requests(log) == Cardinality({i \in 1..Len(log) : log[i] = "GET"})

\* a step that is a run of the entry point op: the record of the run names it, and the
\* step is neither a publication nor the clearing of the cache, which leave the record
\* of the last run as it was
RunStep(op) ==
    /\ run'.op = op
    /\ published' = published
    /\ ~(cachePdf # NoFile /\ cachePdf' = NoFile)

\* the document was read after the sidecar was written and is the text of pages, or
\* pages is not a PDF and reading it raised
ReadOrRejected(pages) ==
    \/ HasEvent(run'.log, "parse") /\ text' = pages /\ pages # NotPdf
    \/ /\ pages = NotPdf /\ ~HasEvent(run'.log, "parse")
       /\ run'.outcome \in {"PDFSyntaxError", "HTTPException"}

\* a step that served the cached document: no request, nothing written, the cache files
\* as they were, and the document read is the cached one
ServedFromCache ==
    /\ Requests(run'.log) = 0
    /\ ~HasEvent(run'.log, "write_pdf") /\ ~HasEvent(run'.log, "write_meta")
    /\ cachePdf' = cachePdf /\ cacheMeta' = cacheMeta
    /\ ReadOrRejected(cachePdf.pages)

\* a step that fetched: one request, and unless the request failed the body of the
\* response (the document behind PDF_URL when the status is 2xx) and its sidecar (fetch
\* time and source) are both written, in this order, before the file is read
\* the run ended in the error of its request: a retrieval error (wrapped by the endpoint
\* in an HTTPException that names it), the request being the last thing the run did
FetchFailed ==
    /\ \/ run'.outcome \in RetrievalErrors
       \/ run'.outcome = "HTTPException" /\ run'.message \in {<<e>> : e \in RetrievalErrors}
    /\ run'.log # <<>> /\ run'.log[Len(run'.log)] = "GET"
Fetched ==
    /\ Requests(run'.log) = 1
    /\ ~FetchFailed =>
          /\ cachePdf' \in {PdfFile(published), PdfFile(NotPdf)}
          /\ cacheMeta' # NoFile
          /\ cacheMeta'.source = "PDF_URL" /\ cacheMeta'.fetched \in Instants
          /\ Precedes(run'.log, "GET", "write_pdf")
          /\ Precedes(run'.log, "write_pdf", "write_meta")
          /\ HasEvent(run'.log, "parse") => Precedes(run'.log, "write_meta", "parse")
          /\ ReadOrRejected(cachePdf'.pages)

\* C19: download_pdf(force=False) with a cached document returns it without a request
\* and without touching the document or its sidecar; download_pdf(force=True), and
\* download_pdf(force=False) with no cached document, sends a request and on success
\* writes the document and the sidecar before returning.  update_snapshot calls with
\* force=False, the job with force=True, the endpoint with either.
C19_CacheAndForce ==
    [][/\ (RunStep("update_snapshot") /\ cachePdf # NoFile) => ServedFromCache
       /\ (RunStep("update_snapshot") /\ cachePdf = NoFile) => Fetched
       /\ (RunStep("check_rate_change") /\ snapshot # NoFile) => Fetched
       /\ (RunStep("get_cemc_residential") /\ cachePdf = NoFile) => Fetched
       /\ (RunStep("get_cemc_residential") /\ cachePdf # NoFile)
              => (ServedFromCache \/ Fetched)]_vars
\* update_snapshot served a cached document that is no longer the published one, and
\* sent no request
C19_Witness ==
    /\ run.op = "update_snapshot" /\ ~Logged("GET") /\ Logged("parse")
    /\ cachePdf # NoFile /\ text = cachePdf.pages /\ cachePdf.pages # published
    /\ cacheMeta # NoFile

\* the job run that follows a completed update-snapshot and got its document
JobAfterUpdate ==
    /\ UpdateCompleted
    /\ RunStep("check_rate_change")
    /\ run'.outcome \notin DocumentErrors

\* C20: after update-snapshot completes, a run of the job with no publication in
\* between reports no changes and sends no create-issue request, whatever the cache
\* held before the two runs, the snapshot's metadata key notwithstanding.
C20_AcceptedThenNoChanges ==
    [][JobAfterUpdate =>
          /\ changes' = <<>>
          /\ HasEvent(run'.log, "print_no_changes")
          /\ ~HasEvent(run'.log, "POST") /\ issue' = NoIssue
          /\ run'.outcome = "ok"]_vars

\* What holds instead: the job reports no changes after an update-snapshot that read
\* the published document, fetched or cached; an update-snapshot served from a cache
\* that holds an earlier document accepts that document's rates.
C20_AcceptedWhenCurrent ==
    [][(JobAfterUpdate /\ text = published) =>
          /\ changes' = <<>>
          /\ HasEvent(run'.log, "print_no_changes")
          /\ ~HasEvent(run'.log, "POST") /\ issue' = NoIssue
          /\ run'.outcome = "ok"]_vars
C20_StaleAccepted ==
    /\ UpdateCompleted /\ ~Logged("GET")
    /\ text # published /\ snapshot # NoFile

-----------------------------------------------------------------------------
(* Claims about the bounds of the sections in parse_pdf. *)

\* the headers of the recognized sections: standard, supplemental, seasonal,
\* time-of-use and general-power
RecognizedHeaders == {"RS", "SRS", "SEASONAL", "TOU", "GP"}

\* the headers of the other section kinds that match in a raw section after its start
HeadersInside(raw, kind) ==
    {other \in RecognizedHeaders \ {HeaderOf(kind)} :
        \E j \in 2..Len(raw) : MatchesAt(raw, other, j)}

\* C23: in every parsed document the raw_section of each located section runs from its
\* header to the nearest header of any recognized section that starts after it, or to
\* the end of the text when none follows; hence no raw_section holds the header of
\* another section kind after its own header.
C23_NearestHeaderBounds ==
    pc = "parsed" =>
        \A kind \in SectionKinds :
            /\ parsed[kind].raw_section = SpanTo(text, HeaderOf(kind), RecognizedHeaders)
            /\ parsed[kind].is_present => HeadersInside(parsed[kind].raw_section, kind) = {}

-----------------------------------------------------------------------------
(* Claims about the create-issue request of the job. *)

Posts(log) == Cardinality({i \in 1..Len(log) : log[i] = "POST"})
\* the diff of the published document's summary against the snapshot file
FreshDiff ==
    diff_summaries(extract_residential_summary(Parsed[published]),
                   [s \in Sections |-> json_load(snapshot)[s]])
\* the job computed a diff and it is not empty
DiffNonEmpty == HasEvent(run'.log, "diff") /\ changes' # <<>>
\* the request is sent after the snapshot was loaded, the document fetched and the diff
\* computed, of the document fetched in this run against the snapshot
SentInOrder ==
    /\ Precedes(run'.log, "load_snapshot", "GET")
    /\ Precedes(run'.log, "GET", "diff")
    /\ Precedes(run'.log, "diff", "POST")
    /\ text' = published /\ changes' = FreshDiff
MissingEnvError ==
    /\ run'.outcome = "RuntimeError"
    /\ run'.message \in {<<"GITHUB_REPOSITORY not set">>, <<"GITHUB_TOKEN not set">>}

\* C21 as stated: in every run of the job a create-issue request is sent if and only
\* if the diff of the freshly fetched document's summary against the snapshot is not
\* empty, at most one request is sent, and only after the snapshot was loaded and the
\* diff computed.
C21_IssueIffChanged ==
    [][RunStep("check_rate_change") =>
          /\ Posts(run'.log) <= 1
          /\ Posts(run'.log) = 1 <=> DiffNonEmpty
          /\ Posts(run'.log) = 1 => SentInOrder]_vars

\* C21: in every run of the job at most one create-issue request is sent, only after
\* the snapshot was loaded and the diff of the freshly fetched document's summary
\* against it computed, and only when that diff is not empty; when the diff is not
\* empty the request is sent unless GITHUB_REPOSITORY or GITHUB_TOKEN is not set, and
\* then the run ends in a RuntimeError that says so, without a request.
C21_IssueWhenChangedAndConfigured ==
    [][RunStep("check_rate_change") =>
          /\ Posts(run'.log) <= 1
          /\ Posts(run'.log) = 1 => (DiffNonEmpty /\ SentInOrder)
          /\ DiffNonEmpty => (Posts(run'.log) = 1 \/ MissingEnvError)
          /\ MissingEnvError => (DiffNonEmpty /\ Posts(run'.log) = 0)
          /\ HasEvent(run'.log, "diff") => changes' = FreshDiff
          /\ issue' # NoIssue <=> Posts(run'.log) = 1]_vars
\* a run that fetched the published document, found its rates changed and sent the
\* request
C21_Witness ==
    /\ run.op = "check_rate_change" /\ run.outcome = "ok"
    /\ Logged("POST") /\ Logged("print_issue_created")
    /\ changes # <<>> /\ issue # NoIssue
    /\ text = published /\ cachePdf # NoFile /\ cachePdf.pages = published

-----------------------------------------------------------------------------
(* Claims about a failed fetch. *)

EntryPoints == {"get_cemc_residential", "update_snapshot", "check_rate_change"}
\* the error reached the caller after one request, and the cache files are as they were
SurfacedCacheKept ==
    /\ FetchFailed
    /\ Requests(run'.log) = 1
    /\ ~HasEvent(run'.log, "write_pdf") /\ ~HasEvent(run'.log, "write_meta")
    /\ cachePdf' = cachePdf /\ cacheMeta' = cacheMeta
    /\ ~HasEvent(run'.log, "parse")
\* the request of the step did not bring the document: it was answered with a status
\* outside 200 to 299, or not at all
RequestFailed ==
    /\ Requests(run'.log) >= 1
    /\ ~(HasEvent(run'.log, "write_pdf") /\ cachePdf' = PdfFile(published))

\* C22: when the request download_pdf makes fails (a response with a status outside
\* 200 to 299, a network failure or a timeout), the error reaches the caller after
\* exactly one request, and the cached document and its sidecar are as they were
\* before the call.
C22_FailedFetchSurfaced ==
    [][\A op \in EntryPoints : (RunStep(op) /\ RequestFailed) => SurfacedCacheKept]_vars

\* What holds instead: the errors download_pdf raises (no answer, or a status from 400
\* to 599) reach the caller after one request with the cache files as they were; a
\* final status outside 200 to 299 that raise_for_status lets pass is taken for success
\* and its body replaces the cached document.
C22_RaisedErrorSurfaced ==
    [][\A op \in EntryPoints :
          (RunStep(op) /\ Requests(run'.log) >= 1)
              => \/ SurfacedCacheKept
                 \/ /\ ~FetchFailed /\ Requests(run'.log) = 1
                    /\ Precedes(run'.log, "GET", "write_pdf")
                    /\ cachePdf' \in {PdfFile(published), PdfFile(NotPdf)}]_vars
C22_BodyCached ==
    /\ run.op = "update_snapshot" /\ run.outcome = "PDFSyntaxError"
    /\ Logged("GET") /\ Logged("write_pdf")
    /\ cachePdf = PdfFile(NotPdf)
====
